---- MODULE Spec2Model ----
(***************************************************************************)
(* A model of the column-mapping and phone-normalisation core of           *)
(* automacao_listas: utils.py (phone formatter, column matcher, Agendor    *)
(* report reconciliation), data_cleaning.py (clean_and_filter_data),       *)
(* data_ingestion.py (structure detection in load_data) and the upload     *)
(* page of report_generator.py (aba_higienizacao).                         *)
(*                                                                         *)
(* Text is modelled by TLA+ strings, read character by character with      *)
(* SubSeq.  A missing value (pandas NaN / None) is the reserved string NaN, *)
(* which no input cell holds as text.                                      *)
(***************************************************************************)
EXTENDS Integers, Sequences, FiniteSets, TLC

VARIABLES
    mode,           \* which operation this behaviour exercises
    pc,             \* position of the operation: "start", "done", "rerun"
    df,             \* clean_and_filter_data: the input table (sequence of rows)
    essential_cols, \* clean_and_filter_data: the essential_cols argument
    run1,           \* outcome of clean_and_filter_data(df, essential_cols)
    run2,           \* outcome of the call on run1's own table
    df_original,    \* process_agendor_report: the original table
    df_error,       \* process_agendor_report: the error report
    report,         \* outcome of process_agendor_report
    columns,        \* load_data: the column names of the parsed file
    structure_type, \* load_data: the detected structure
    session_state,  \* aba_higienizacao: the upload and st.session_state
    call_args,      \* the arguments of a call of a pure function
    call_result     \* what that call returned

vars == <<mode, pc, df, essential_cols, run1, run2,
          df_original, df_error, report, columns, structure_type,
          session_state, call_args, call_result>>

-----------------------------------------------------------------------------
(* Text helpers                                                            *)

NaN == "<NaN>"

IsNa(v) == v = NaN

Char(s, i) == SubSeq(s, i, i)

Digits == {"0", "1", "2", "3", "4", "5", "6", "7", "8", "9"}

LowerLetters == {"a", "b", "c", "d", "e", "f", "g", "h", "i", "j", "k", "l", "m",
                 "n", "o", "p", "q", "r", "s", "t", "u", "v", "w", "x", "y", "z"}

UpperToLower ==
    [A |-> "a", B |-> "b", C |-> "c", D |-> "d", E |-> "e", F |-> "f", G |-> "g",
     H |-> "h", I |-> "i", J |-> "j", K |-> "k", L |-> "l", M |-> "m", N |-> "n",
     O |-> "o", P |-> "p", Q |-> "q", R |-> "r", S |-> "s", T |-> "t", U |-> "u",
     V |-> "v", W |-> "w", X |-> "x", Y |-> "y", Z |-> "z"]

\* str.lower(), one character
LowerChar(c) == IF c \in DOMAIN UpperToLower THEN UpperToLower[c] ELSE c

RECURSIVE Lower(_)
Lower(s) == IF s = "" THEN "" ELSE LowerChar(Char(s, 1)) \o Lower(SubSeq(s, 2, Len(s)))

\* str.isalnum(), one character (the accented letters of the names used here included)
IsAlnum(c) == LowerChar(c) \in LowerLetters \cup Digits \cup {"ç", "ã", "á", "é", "í"}

IsSpace(c) == c \in {" ", "\t"}

RECURSIVE LStrip(_)
LStrip(s) == IF s # "" /\ IsSpace(Char(s, 1)) THEN LStrip(SubSeq(s, 2, Len(s))) ELSE s

RECURSIVE RStrip(_)
RStrip(s) == IF s # "" /\ IsSpace(Char(s, Len(s))) THEN RStrip(SubSeq(s, 1, Len(s) - 1)) ELSE s

\* str.strip()
Strip(s) == LStrip(RStrip(s))

\* ''.join(filter(str.isdigit, s))
RECURSIVE OnlyDigits(_)
OnlyDigits(s) ==
    IF s = "" THEN ""
    ELSE (IF Char(s, 1) \in Digits THEN Char(s, 1) ELSE "") \o OnlyDigits(SubSeq(s, 2, Len(s)))

StartsWith(s, p) == Len(s) >= Len(p) /\ SubSeq(s, 1, Len(p)) = p

EndsWith(s, p) == Len(s) >= Len(p) /\ SubSeq(s, Len(s) - Len(p) + 1, Len(s)) = p

\* p in s
Contains(s, p) == \E i \in 1..(Len(s) - Len(p) + 1) : SubSeq(s, i, i + Len(p) - 1) = p

\* str(value): a missing value prints as "nan"
Str(v) == IF IsNa(v) THEN "nan" ELSE v

\* the sequence s without the elements that fail Keep
RECURSIVE SelectIdx(_, _)
SelectIdx(s, keep) ==
    IF s = <<>> THEN <<>>
    ELSE (IF keep[1] THEN <<s[1]>> ELSE <<>>)
         \o SelectIdx(Tail(s), [i \in 1..(Len(s) - 1) |-> keep[i + 1]])

Range(s) == {s[i] : i \in DOMAIN s}

\* a local assignment "x = v" followed by the code Op that reads x
Bind(v, Op(_)) == CHOOSE r \in {Op(x) : x \in {v}} : TRUE

-----------------------------------------------------------------------------
(* utils.py: phone cleaning and the DDI formatter                          *)

\* a variant of clean_phone_number that keeps a trailing ".0"
clean_phone_number_keeps_float_suffix(number_str, preserve_full) ==
    IF IsNa(number_str) \/ Strip(Str(number_str)) = "" THEN NaN
    ELSE LET digits == OnlyDigits(Strip(Str(number_str)))
         IN IF preserve_full
            THEN (IF Len(digits) >= 10 THEN digits ELSE NaN)
            ELSE IF Len(digits) >= 11 THEN SubSeq(digits, Len(digits) - 10, Len(digits))
            ELSE IF Len(digits) = 10 THEN digits
            ELSE NaN

\* clean_phone_number (the second definition, utils.py:221, is the one bound
\* to the name): NaN when invalid.
clean_phone_number(number_str, preserve_full) ==
    IF IsNa(number_str) \/ Strip(Str(number_str)) = "" THEN NaN
    ELSE LET s0 == Strip(Str(number_str))
             s_val == IF EndsWith(s0, ".0") THEN SubSeq(s0, 1, Len(s0) - 2) ELSE s0
             digits == OnlyDigits(s_val)
         IN IF preserve_full
            THEN (IF Len(digits) >= 10 THEN digits ELSE NaN)
            ELSE IF Len(digits) >= 11 THEN SubSeq(digits, Len(digits) - 10, Len(digits))
            ELSE IF Len(digits) = 10 THEN digits
            ELSE NaN

default_country_code == "+55"

\* a variant of the formatter that removes a leading "55" whatever the length
format_phone_always_strips_55(phone_str, include_country_code) ==
    IF IsNa(phone_str) \/ Strip(Str(phone_str)) = "" THEN <<"", "VAZIO">>
    ELSE LET cleaned0 == clean_phone_number(phone_str, TRUE)
             digits == OnlyDigits(Str(phone_str))
             failed == IsNa(cleaned0) \/ cleaned0 = ""
             phone_clean == IF failed THEN digits ELSE cleaned0
             raw_len == Len(phone_clean)
         IN IF failed /\ digits = "" THEN <<"", "VAZIO">>
            ELSE IF raw_len < 10 THEN <<"", "VAZIO">>
            ELSE IF ~include_country_code
            THEN (IF StartsWith(phone_clean, "55")
                  THEN <<SubSeq(phone_clean, 3, raw_len), "OK (Sem +55)">>
                  ELSE <<phone_clean, "OK (Sem +55)">>)
            ELSE IF StartsWith(phone_clean, "55")
            THEN <<"+" \o phone_clean, "OK">>
            ELSE IF raw_len = 10 \/ raw_len = 11
            THEN <<default_country_code \o phone_clean, "CORRIGIDO (+55)">>
            ELSE <<default_country_code \o phone_clean, "INCERTO">>

\* format_phone_for_whatsapp_business: <<formatted, status>>
format_phone_for_whatsapp_business(phone_str, include_country_code) ==
    IF IsNa(phone_str) \/ Strip(Str(phone_str)) = "" THEN <<"", "VAZIO">>
    ELSE LET cleaned0 == clean_phone_number(phone_str, TRUE)
             digits == OnlyDigits(Str(phone_str))
             failed == IsNa(cleaned0) \/ cleaned0 = ""
             phone_clean == IF failed THEN digits ELSE cleaned0
             raw_len == Len(phone_clean)
         IN IF failed /\ digits = "" THEN <<"", "VAZIO">>
            ELSE IF raw_len < 10 THEN <<"", "VAZIO">>
            ELSE IF ~include_country_code
            THEN (IF StartsWith(phone_clean, "55") /\ raw_len >= 12
                  THEN <<SubSeq(phone_clean, 3, raw_len), "OK (Sem +55)">>
                  ELSE <<phone_clean, "OK (Sem +55)">>)
            ELSE IF StartsWith(phone_clean, "55") /\ raw_len >= 12
            THEN <<"+" \o phone_clean, "OK">>
            ELSE IF raw_len = 10 \/ raw_len = 11
            THEN <<default_country_code \o phone_clean, "CORRIGIDO (+55)">>
            ELSE IF ~StartsWith(phone_clean, "55")
            THEN <<default_country_code \o phone_clean, "INCERTO">>
            ELSE <<"+" \o phone_clean, "INCERTO">>

-----------------------------------------------------------------------------
(* utils.py: best_match_column (the second definition, utils.py:280)       *)

\* set(t for t in ''.join(ch if ch.isalnum() else ' ' for ch in s).split() if t)
RECURSIVE TokensFrom(_, _, _)
TokensFrom(s, i, cur) ==
    IF i > Len(s) THEN (IF cur = "" THEN {} ELSE {cur})
    ELSE IF IsAlnum(Char(s, i)) THEN TokensFrom(s, i + 1, cur \o Char(s, i))
    ELSE (IF cur = "" THEN {} ELSE {cur}) \cup TokensFrom(s, i + 1, "")

Tokens(s) == TokensFrom(s, 1, "")

\* length of the common run of a[i..ahi] and b[j..bhi]
RECURSIVE RunLen(_, _, _, _, _, _)
RunLen(a, b, i, j, ahi, bhi) ==
    IF i > ahi \/ j > bhi \/ Char(a, i) # Char(b, j) THEN 0
    ELSE 1 + RunLen(a, b, i + 1, j + 1, ahi, bhi)

SetMax(S) == Bind(S, LAMBDA T : CHOOSE m \in T : \A n \in T : n <= m)

SetMin(S) == Bind(S, LAMBDA T : CHOOSE m \in T : \A n \in T : m <= n)

\* difflib.SequenceMatcher.find_longest_match without junk: the longest block,
\* the one starting earliest in a, and of those the one starting earliest in b
find_longest_match(a, b, alo, ahi, blo, bhi) ==
    Bind([i \in alo..ahi, j \in blo..bhi |-> RunLen(a, b, i, j, ahi, bhi)], LAMBDA run :
    Bind(SetMax({run[i, j] : i \in alo..ahi, j \in blo..bhi}), LAMBDA k :
    Bind(SetMin({i \in alo..ahi : \E j \in blo..bhi : run[i, j] = k}), LAMBDA bi :
    <<bi, SetMin({j \in blo..bhi : run[bi, j] = k}), k>>)))

\* the sum of the sizes of get_matching_blocks()
RECURSIVE matching_size(_, _, _, _, _, _)
matching_size(a, b, alo, ahi, blo, bhi) ==
    IF alo > ahi \/ blo > bhi THEN 0
    ELSE Bind(find_longest_match(a, b, alo, ahi, blo, bhi), LAMBDA m :
         IF m[3] = 0 THEN 0
         ELSE m[3] + matching_size(a, b, alo, m[1] - 1, blo, m[2] - 1)
                   + matching_size(a, b, m[1] + m[3], ahi, m[2] + m[3], bhi))

\* The score of one (candidate, column) pair as an exact fraction <<num, den>>
\* of hundredths: 100 * score = num / den, with
\*   score = 120 [equal] + 80 [substring] + 40 * |inter| / |union|
\*           + 40 * (2 * M / T) - 0.01 * len(col).
pair_score(cand, col) ==
    Bind(<<Lower(cand), Lower(col)>>, LAMBDA low :
    Bind(<<Tokens(low[1]), Tokens(low[2])>>, LAMBDA tokens :
    Bind(matching_size(low[1], low[2], 1, Len(low[1]), 1, Len(low[2])), LAMBDA M :
    LET cand_l == low[1]
        col_l == low[2]
        hasTok == tokens[1] # {} /\ tokens[2] # {}
        U == IF hasTok THEN Cardinality(tokens[1] \cup tokens[2]) ELSE 1
        I == IF hasTok THEN Cardinality(tokens[1] \cap tokens[2]) ELSE 0
        T == Len(cand_l) + Len(col_l)
        whole == (IF col_l = cand_l THEN 12000 ELSE 0)
                 + (IF Contains(col_l, cand_l) \/ Contains(cand_l, col_l) THEN 8000 ELSE 0)
                 - Len(col_l)
    IN <<whole * U * T + 4000 * I * T + 8000 * M * U, U * T>>)))

\* s > t for two such fractions
ScoreGreater(s, t) == s[1] * t[2] > t[1] * s[2]

\* The names the tables of this model use, and their scores: score_of is
\* pair_score, read from the table when the pair is in it.
KnownCandidates ==
    {"Razao", "RAZAO_SOCIAL", "NOME/RAZAO_SOCIAL", "Fantasia", "SOCIO1Nome", "NOME",
     "Logradouro", "FULL-LOGRADOURO", "FULL_LOGRADOURO", "Endereco", "ENDERECO_COMPLETO",
     "TIPO-LOGRADOURO", "Numero", "NUMERO", "Bairro", "BAIRRO", "Cidade", "CIDADE",
     "UF", "ESTADO", "CNPJ", "CPF/CNPJ", "Whats", "WhatsApp", "Telefone", "Celular",
     "Contato", "POSSUI-WHATSAPP", "CEL", "DDD", "TELEFONE_DDD", "FONE_DDD", "FONE",
     "TELEFONE_NUMERO", "FONE_NUMERO", "NUMERO_TELEFONE", "CEP", "SOCIO1Celular1",
     "SOCIO1Celular2", "SOCIO2Nome", "SOCIO2Celular1", "SOCIO2Celular2"}

KnownColumns ==
    {"Razao", "BAIRRO", "NOME", "Whats", "CEL", "DDD", "FONE", "Contato",
     "SOCIO1Nome", "SOCIO1Celular1", "SOCIO2Nome",
     "Logradouro", "Numero", "Bairro", "Cidade", "UF"}

ScoreTable == [cand \in KnownCandidates, col \in KnownColumns |-> pair_score(cand, col)]

score_of(cand, col) ==
    IF cand \in KnownCandidates /\ col \in KnownColumns
    THEN ScoreTable[cand, col]
    ELSE pair_score(cand, col)

\* the order of the loops over pairs <<candidate index, column index>>
LoopBefore(p, q) == p[1] < q[1] \/ (p[1] = q[1] /\ p[2] <= q[2])

\* a variant of the loops that lets the earlier column win a tie
best_pair_column_order(df_cols, candidates) ==
    LET pairs == {p \in (DOMAIN candidates) \X (DOMAIN df_cols) : candidates[p[1]] # ""}
        scored == {<<p, score_of(candidates[p[1]], df_cols[p[2]])>> : p \in pairs}
    IN Bind({e \in scored : e[2][1] > 0}, LAMBDA positive :
       IF positive = {} THEN <<"", <<0, 1>>>>
       ELSE Bind({e \in positive : \A f \in positive : ~ScoreGreater(f[2], e[2])}, LAMBDA top :
            Bind(CHOOSE e \in top : \A f \in top : LoopBefore(<<e[1][2], e[1][1]>>,
                                                              <<f[1][2], f[1][1]>>),
                 LAMBDA first :
            <<df_cols[first[1][2]], first[2]>>)))

\* The loops of best_match_column, candidates outside and columns inside,
\* replace best_col only on a strictly greater score, starting from 0.0:
\* the result is the first pair, in loop order, that attains the greatest
\* score, when that score is positive.  Pairs are <<candidate index, column
\* index>>.
best_pair(df_cols, candidates) ==
    LET pairs == {p \in (DOMAIN candidates) \X (DOMAIN df_cols) : candidates[p[1]] # ""}
        scored == {<<p, score_of(candidates[p[1]], df_cols[p[2]])>> : p \in pairs}
    IN Bind({e \in scored : e[2][1] > 0}, LAMBDA positive :
       IF positive = {} THEN <<"", <<0, 1>>>>
       ELSE Bind({e \in positive : \A f \in positive : ~ScoreGreater(f[2], e[2])}, LAMBDA top :
            Bind(CHOOSE e \in top : \A f \in top : LoopBefore(e[1], f[1]), LAMBDA first :
            <<df_cols[first[1][2]], first[2]>>)))

\* a variant of the loops that stops at the first pair reaching min_score
best_match_column_first_fit(kind, df_columns, candidates, min_score) ==
    LET pairs == {p \in (DOMAIN candidates) \X (DOMAIN df_columns) : candidates[p[1]] # ""}
        fits == {p \in pairs :
                   \E sc \in {score_of(candidates[p[1]], df_columns[p[2]])} :
                       sc[1] >= 100 * min_score * sc[2]}
    IN IF df_columns = <<>> \/ fits = {} THEN ""
       ELSE df_columns[(CHOOSE p \in fits : \A q \in fits : LoopBefore(p, q))[2]]

\* bool(df_columns) as "if not df_columns" (utils.py:285) takes it.  kind is
\* the Python type of the argument: a list is true when it is not empty; a
\* pandas Index defines no truth value and raises ValueError.
truth_value(kind, df_columns) ==
    IF kind = "Index" THEN "ValueError"
    ELSE IF df_columns = <<>> THEN "False"
    ELSE "True"

\* the exception, where a call returns a column name
ValueError == "<ValueError>"

\* best_match_column: "" when the list is empty or the best score is below
\* min_score
best_match_column(kind, df_columns, candidates, min_score) ==
    Bind(truth_value(kind, df_columns), LAMBDA truth :
    IF truth = "ValueError" THEN ValueError
    ELSE IF truth = "False" THEN ""
    ELSE Bind(best_pair(df_columns, candidates), LAMBDA best :
         IF best[2][1] >= 100 * min_score * best[2][2] THEN best[1] ELSE ""))

-----------------------------------------------------------------------------
(* Tables.  A DataFrame is [cols |-> <<names>>, rows |-> <<row>>], a row   *)
(* is [idx |-> its index label, cells |-> [column -> value]].              *)

HasCol(t, c) == c \in Range(t.cols)

\* row.get(col, default)
row_get(row, col, default) == IF col \in DOMAIN row.cells THEN row.cells[col] ELSE default

\* df.empty
IsEmptyFrame(t) == t.rows = <<>> \/ t.cols = <<>>

\* the characters of the texts used here, in code point order
CodeOrder == " +-./0123456789ABCDEFGHIJKLMNOPQRSTUVWXYZ_abcdefghijklmnopqrstuvwxyz"

Ord(c) ==
    IF \E i \in 1..Len(CodeOrder) : Char(CodeOrder, i) = c
    THEN CHOOSE i \in 1..Len(CodeOrder) : Char(CodeOrder, i) = c
    ELSE Len(CodeOrder) + 1

\* a < b for Python strings
RECURSIVE StrLess(_, _)
StrLess(a, b) ==
    IF b = "" THEN FALSE
    ELSE IF a = "" THEN TRUE
    ELSE IF Char(a, 1) # Char(b, 1) THEN Ord(Char(a, 1)) < Ord(Char(b, 1))
    ELSE StrLess(SubSeq(a, 2, Len(a)), SubSeq(b, 2, Len(b)))

-----------------------------------------------------------------------------
(* data_cleaning.py: clean_and_filter_data, the column mapping             *)

FIXED_OUTPUT_ORDER ==
    <<"Razao", "Logradouro", "Numero", "Bairro", "Cidade", "UF", "NOME", "Whats", "CEL">>

FULL_EXTRACTION_COLS ==
    <<"Razao", "Logradouro", "Numero", "Bairro", "Cidade", "UF", "CEP", "CNPJ",
      "SOCIO1Nome", "SOCIO1Celular1", "SOCIO1Celular2",
      "NOME", "Whats", "CEL", "DDD", "FONE">>

MAPPING ==
    [Razao |-> <<"Razao", "RAZAO_SOCIAL", "NOME/RAZAO_SOCIAL", "Fantasia">>,
     SOCIO1Nome |-> <<"SOCIO1Nome", "NOME">>,
     Logradouro |-> <<"Logradouro", "FULL-LOGRADOURO", "FULL_LOGRADOURO", "Endereco",
                      "ENDERECO_COMPLETO", "TIPO-LOGRADOURO">>,
     Numero |-> <<"Numero", "NUMERO">>,
     Bairro |-> <<"Bairro", "BAIRRO">>,
     Cidade |-> <<"Cidade", "CIDADE">>,
     UF |-> <<"UF", "ESTADO">>,
     CNPJ |-> <<"CNPJ", "CPF/CNPJ">>,
     Whats |-> <<"Whats", "WhatsApp", "Telefone", "Celular", "Contato", "POSSUI-WHATSAPP">>,
     CEL |-> <<"CEL", "Celular", "Telefone", "Whats", "WhatsApp">>,
     DDD |-> <<"DDD", "TELEFONE_DDD", "FONE_DDD">>,
     FONE |-> <<"FONE", "TELEFONE_NUMERO", "FONE_NUMERO", "NUMERO_TELEFONE">>]

\* MAPPING.get(std_col, [std_col])
source_options(std_col) ==
    IF std_col \in DOMAIN MAPPING THEN MAPPING[std_col] ELSE <<std_col>>

\* the literal lists of lines 130-139, before the filter on df.columns
variant_list(std_col) ==
    CASE std_col = "Logradouro" ->
           <<"Logradouro", "FULL-LOGRADOURO", "Logradouro.1", "FULL-LOGRADOURO.1",
             "Logradouro.2", "FULL-LOGRADOURO.2", "Logradouro.3", "FULL-LOGRADOURO.3">>
      [] std_col = "Numero" -> <<"NUMERO", "NUMERO.1", "NUMERO.2", "NUMERO.3">>
      [] std_col = "Bairro" -> <<"BAIRRO", "BAIRRO.1", "BAIRRO.2", "BAIRRO.3">>
      [] std_col = "Cidade" -> <<"CIDADE", "CIDADE.1", "CIDADE.2", "CIDADE.3">>
      [] std_col = "UF" -> <<"UF", "UF.1", "UF.2", "UF.3">>
      [] OTHER -> source_options(std_col)

\* the sort key (len(x), x)
LenNameLess(x, y) == Len(x) < Len(y) \/ (Len(x) = Len(y) /\ StrLess(x, y))

RECURSIVE InsertByLenName(_, _)
InsertByLenName(sorted, x) ==
    IF sorted = <<>> THEN <<x>>
    ELSE IF LenNameLess(x, Head(sorted)) THEN <<x>> \o sorted
    ELSE <<Head(sorted)>> \o InsertByLenName(Tail(sorted), x)

\* list.sort(key=lambda x: (len(x), x)), stable
RECURSIVE SortByLenName(_)
SortByLenName(s) ==
    IF s = <<>> THEN <<>>
    ELSE InsertByLenName(SortByLenName(SubSeq(s, 1, Len(s) - 1)), s[Len(s)])

potential_source_cols(t, std_col) ==
    SortByLenName(SelectSeq(variant_list(std_col), LAMBDA c : HasCol(t, c)))

\* df[col].astype(str).str.strip().any(): a missing cell prints as "nan"
has_content(t, col) ==
    \E i \in DOMAIN t.rows : Strip(Str(t.rows[i].cells[col])) # ""

\* the direct loop of lines 147-156: the first candidate with content, or ""
RECURSIVE first_with_content(_, _)
first_with_content(t, cands) ==
    IF cands = <<>> THEN ""
    ELSE IF has_content(t, Head(cands)) THEN Head(cands)
    ELSE first_with_content(t, Tail(cands))

\* the fuzzy match of line 162 is given df.columns.tolist(), a list
\* the source column accepted for std_col ("" when none: the column is NaN)
mapped_source(t, std_col) ==
    Bind(potential_source_cols(t, std_col), LAMBDA pot :
    Bind(first_with_content(t, pot), LAMBDA direct :
    IF direct # "" THEN direct
    ELSE Bind(best_match_column("list", t.cols, source_options(std_col) \o pot, 60), LAMBDA best_col :
         IF best_col # "" /\ has_content(t, best_col) THEN best_col ELSE "")))

\* df_processed after the loop of lines 124-173: one column per essential column
map_columns(t, ess) ==
    Bind({<<c, mapped_source(t, c)>> : c \in Range(ess)}, LAMBDA found :
    LET src(c) == (CHOOSE e \in found : e[1] = c)[2]
    IN [cols |-> ess,
        rows |-> [i \in DOMAIN t.rows |->
                    [idx |-> t.rows[i].idx,
                     cells |-> [c \in Range(ess) |->
                                  IF src(c) = "" THEN NaN ELSE t.rows[i].cells[src(c)]]]]])

-----------------------------------------------------------------------------
(* clean_and_filter_data: the dedicated phone logic (lines 196-287)         *)

\* data_cleaning._clean_phone_number: every digit of the value, NaN when none
dc_clean_phone_number(number_str) ==
    IF IsNa(number_str) \/ Strip(Str(number_str)) = "" THEN NaN
    ELSE LET cleaned == OnlyDigits(Str(number_str))
         IN IF cleaned = "" THEN NaN ELSE cleaned

DigitText == <<"1", "2", "3", "4", "5", "6", "7">>

\* f"DDD.{i}" if i > 0 else "DDD"
indexed_col(base, i) == IF i > 0 THEN base \o "." \o DigitText[i] ELSE base

\* a cleaned candidate is appended when it is neither NaN nor ""
phone_if_valid(cond, text) ==
    LET cleaned_phone == dc_clean_phone_number(text)
    IN IF cond /\ ~IsNa(cleaned_phone) /\ cleaned_phone # "" THEN <<cleaned_phone>> ELSE <<>>

\* the loop "for i in range(8)" of lines 208-248 from index i on
RECURSIVE scan_phone_columns(_, _, _)
scan_phone_columns(row, i, valid_phones) ==
    IF i >= 8 THEN valid_phones
    ELSE LET ddd_val == Strip(Str(row_get(row, indexed_col("DDD", i), "")))
             fone_val == Strip(Str(row_get(row, indexed_col("FONE", i), "")))
             cel_val == Strip(Str(row_get(row, indexed_col("CEL", i), "")))
             found == valid_phones
                      \o phone_if_valid(ddd_val # "" /\ fone_val # "", ddd_val \o fone_val)
                      \o phone_if_valid(ddd_val # "" /\ cel_val # "", ddd_val \o cel_val)
                      \o phone_if_valid(ddd_val = "" /\ fone_val # "", fone_val)
                      \o phone_if_valid(ddd_val = "" /\ cel_val # "", cel_val)
         IN IF Len(found) >= 2 THEN found ELSE scan_phone_columns(row, i + 1, found)

SetCell(row, col, v) == [row EXCEPT !.cells = [row.cells EXCEPT ![col] = v]]

\* lines 250-261: where the first and the second phone found go
assign_phones(prow, valid_phones, ess) ==
    LET E == Range(ess)
        first == IF Len(valid_phones) = 0 THEN prow
                 ELSE IF "SOCIO1Celular1" \in E THEN SetCell(prow, "SOCIO1Celular1", valid_phones[1])
                 ELSE IF "Whats" \in E THEN SetCell(prow, "Whats", valid_phones[1])
                 ELSE prow
    IN IF Len(valid_phones) <= 1 THEN first
       ELSE IF "SOCIO1Celular2" \in E THEN SetCell(first, "SOCIO1Celular2", valid_phones[2])
       ELSE IF "CEL" \in E THEN SetCell(first, "CEL", valid_phones[2])
       ELSE first

\* lines 264-271: the direct columns of a table that is not Lemit-like
direct_phones(prow, row, ess) ==
    LET E == Range(ess)
        one == IF "SOCIO1Celular1" \in E
               THEN SetCell(prow, "SOCIO1Celular1",
                            dc_clean_phone_number(row_get(row, "SOCIO1Celular1", NaN)))
               ELSE prow
    IN IF "SOCIO1Celular2" \in E
       THEN SetCell(one, "SOCIO1Celular2",
                    dc_clean_phone_number(row_get(row, "SOCIO1Celular2", NaN)))
       ELSE one

\* line 201
is_lemit_like(ess) == "DDD" \in Range(ess) \/ "FONE" \in Range(ess)

dedicated_phones(t, p, ess) ==
    [p EXCEPT !.rows = [i \in DOMAIN p.rows |->
        IF is_lemit_like(ess)
        THEN assign_phones(p.rows[i], scan_phone_columns(t.rows[i], 0, <<>>), ess)
        ELSE direct_phones(p.rows[i], t.rows[i], ess)]]

PhoneColumns == <<"SOCIO1Celular1", "SOCIO1Celular2", "Whats", "CEL">>

\* the formatter as lines 281-287 call it: no include_country_code argument,
\* so the default of the signature (utils.py:156) applies
include_country_code_default == TRUE

\* a variant of the formatting step that asks for no country code
format_cell_without_country_code(v) == format_phone_for_whatsapp_business(v, FALSE)[1]

format_cell(v) == format_phone_for_whatsapp_business(v, include_country_code_default)[1]

format_phones(p, ess) ==
    [p EXCEPT !.rows = [i \in DOMAIN p.rows |->
        [p.rows[i] EXCEPT !.cells = [c \in DOMAIN p.rows[i].cells |->
            IF c \in Range(PhoneColumns) /\ c \in Range(ess)
            THEN format_cell(p.rows[i].cells[c])
            ELSE p.rows[i].cells[c]]]]]

-----------------------------------------------------------------------------
(* clean_and_filter_data: the fallback between partners (lines 292-349)     *)

SOCIO_FIELDS ==
    <<<<"Nome", "SOCIO1Nome", "SOCIO2Nome">>,
      <<"Celular1", "SOCIO1Celular1", "SOCIO2Celular1">>,
      <<"Celular2", "SOCIO1Celular2", "SOCIO2Celular2">>,
      <<"CPF", "SOCIO1CPF", "SOCIO2CPF">>>>

\* _is_valid_cpf(str(value))
is_valid_cpf(cpf_str) == Len(OnlyDigits(cpf_str)) = 11

is_field_valid(field_name, value) ==
    IF IsNa(value) \/ Strip(Str(value)) = "" THEN FALSE
    ELSE IF field_name = "CPF" THEN is_valid_cpf(Str(value))
    ELSE TRUE

\* one field of one row: <<the new value of the SOCIO1 column, whether the
\* row has valid data through this field>>; the column is written only
\* when it is a column of df_processed
fallback_field(prow, f) ==
    LET s1_val == row_get(prow, f[2], NaN)
        s2_val == row_get(prow, f[3], NaN)
        s1_valid == is_field_valid(f[1], s1_val)
        s2_valid == is_field_valid(f[1], s2_val)
        present == f[2] \in DOMAIN prow.cells
    IN IF s1_valid THEN <<s1_val, TRUE>>
       ELSE IF s2_valid THEN <<s2_val, present>>
       ELSE <<NaN, FALSE>>

fallback_row(prow) ==
    [prow EXCEPT !.cells = [c \in DOMAIN prow.cells |->
        IF \E k \in DOMAIN SOCIO_FIELDS : SOCIO_FIELDS[k][2] = c
        THEN fallback_field(prow, SOCIO_FIELDS[CHOOSE k \in DOMAIN SOCIO_FIELDS :
                                                 SOCIO_FIELDS[k][2] = c])[1]
        ELSE prow.cells[c]]]

socio1_has_any_valid_data(prow) ==
    \E k \in DOMAIN SOCIO_FIELDS : fallback_field(prow, SOCIO_FIELDS[k])[2]

IsSocio2(col) == StartsWith(col, "SOCIO2")

DropCols(row, keep) == [row EXCEPT !.cells = [c \in keep |-> row.cells[c]]]

socio_fallback(p, ess) ==
    IF "SOCIO1Nome" \notin Range(ess) THEN p
    ELSE Bind(SelectSeq(p.rows, socio1_has_any_valid_data), LAMBDA kept :
         Bind(SelectSeq(p.cols, LAMBDA c : ~IsSocio2(c)), LAMBDA cols :
         [cols |-> cols,
          rows |-> [i \in DOMAIN kept |-> DropCols(fallback_row(kept[i]), Range(cols))]]))

-----------------------------------------------------------------------------
(* clean_and_filter_data: unification, filter, duplicates, output (351-404) *)

\* .replace(r'^\s*$', np.nan, regex=True), one cell
blank_to_nan(v) == IF ~IsNa(v) /\ Strip(v) = "" THEN NaN ELSE v

cols_to_fix == {"NOME", "Whats", "CEL", "SOCIO1Nome", "SOCIO1Celular1", "SOCIO1Celular2"}

\* a variant of fillna that lets the source replace a value that is there
fillna_overrides(v, other) == IF ~IsNa(other) THEN other ELSE v

\* target.fillna(source), one cell
fillna(v, other) == IF IsNa(v) THEN other ELSE v

\* the column read by df_processed[col] does not exist: KeyError
unify_raises(p) ==
    LET C == Range(p.cols)
    IN \/ "SOCIO1Nome" \in C /\ "NOME" \notin C
       \/ "SOCIO1Celular1" \in C /\ "Whats" \notin C
       \/ "SOCIO1Celular2" \in C /\ "CEL" \notin C
       \/ "Whats" \notin C

unify_row(prow) ==
    LET fixed == [c \in DOMAIN prow.cells |->
                    IF c \in cols_to_fix THEN blank_to_nan(prow.cells[c]) ELSE prow.cells[c]]
        from(target, source) ==
            IF source \in DOMAIN fixed THEN fillna(fixed[target], fixed[source])
            ELSE fixed[target]
    IN [prow EXCEPT !.cells = [c \in DOMAIN fixed |->
          CASE c = "NOME" -> from("NOME", "SOCIO1Nome")
            [] c = "Whats" -> from("Whats", "SOCIO1Celular1")
            [] c = "CEL" -> from("CEL", "SOCIO1Celular2")
            [] OTHER -> fixed[c]]]

unify_columns(p) == [p EXCEPT !.rows = [i \in DOMAIN p.rows |-> unify_row(p.rows[i])]]

\* a variant that skips the filter of lines 373-374
drop_without_whats_keep_all(rows) == rows

\* lines 373-374
drop_without_whats(rows) ==
    SelectSeq(rows, LAMBDA r : r.cells["Whats"] # "" /\ ~IsNa(r.cells["Whats"]))

\* a variant that skips drop_duplicates
drop_duplicates_keep_all(rows, seen) == rows

\* a variant that takes NOME for the subset
RECURSIVE drop_duplicates_by_name(_, _)
drop_duplicates_by_name(rows, seen) ==
    IF rows = <<>> THEN <<>>
    ELSE IF Head(rows).cells["NOME"] \in seen THEN drop_duplicates_by_name(Tail(rows), seen)
    ELSE <<Head(rows)>>
         \o drop_duplicates_by_name(Tail(rows), seen \cup {Head(rows).cells["NOME"]})

\* drop_duplicates(subset=["Whats"], keep='first')
RECURSIVE drop_duplicates(_, _)
drop_duplicates(rows, seen) ==
    IF rows = <<>> THEN <<>>
    ELSE IF Head(rows).cells["Whats"] \in seen THEN drop_duplicates(Tail(rows), seen)
    ELSE <<Head(rows)>> \o drop_duplicates(Tail(rows), seen \cup {Head(rows).cells["Whats"]})

text_columns == {"Razao", "Logradouro", "Bairro", "Cidade", "UF", "NOME", "Whats", "CEL"}

\* .fillna('').astype(str).str.strip(), one cell
clean_text(v) == Strip(IF IsNa(v) THEN "" ELSE v)

\* a variant without the loop of lines 387-389: a missing column stays missing
project_row_present_only(prow) ==
    [idx |-> prow.idx,
     cells |-> [c \in Range(FIXED_OUTPUT_ORDER) \cap DOMAIN prow.cells |->
                  IF c \in text_columns THEN clean_text(prow.cells[c]) ELSE prow.cells[c]]]

\* lines 381-392: clean the text columns, materialise the missing output
\* columns as "", keep FIXED_OUTPUT_ORDER
project_row(prow) ==
    [idx |-> prow.idx,
     cells |-> [c \in Range(FIXED_OUTPUT_ORDER) |->
                  IF c \notin DOMAIN prow.cells THEN ""
                  ELSE IF c \in text_columns THEN clean_text(prow.cells[c])
                  ELSE prow.cells[c]]]

final_cols == FIXED_OUTPUT_ORDER

\* a variant of the comparison that also holds for equal keys, which lets a
\* later row pass an earlier one of the same key
SortKeyLessOrEqual(a, b) ==
    \/ StrLess(a.cells["Bairro"], b.cells["Bairro"])
    \/ /\ a.cells["Bairro"] = b.cells["Bairro"]
       /\ ~StrLess(b.cells["Razao"], a.cells["Razao"])

\* (Bairro, Razao) of a < (Bairro, Razao) of b
SortKeyLess(a, b) ==
    \/ StrLess(a.cells["Bairro"], b.cells["Bairro"])
    \/ /\ a.cells["Bairro"] = b.cells["Bairro"]
       /\ StrLess(a.cells["Razao"], b.cells["Razao"])

RECURSIVE InsertBySortKey(_, _)
InsertBySortKey(sorted, r) ==
    IF sorted = <<>> THEN <<r>>
    ELSE IF SortKeyLess(r, sorted[Len(sorted)]) 
         THEN InsertBySortKey(SubSeq(sorted, 1, Len(sorted) - 1), r) \o <<sorted[Len(sorted)]>>
         ELSE sorted \o <<r>>

\* sort_values(by=["Bairro", "Razao"], ascending=True): several keys, stable
RECURSIVE sort_values(_)
sort_values(rows) ==
    IF rows = <<>> THEN <<>>
    ELSE InsertBySortKey(sort_values(SubSeq(rows, 1, Len(rows) - 1)), rows[Len(rows)])

\* What a call returns: status "empty" is the early return of lines 95-98
\* (pd.DataFrame(), [], "Unknown"), "KeyError" an exception that leaves the
\* caller without a table, "ok" the return of line 404.
EmptyReturn == [status |-> "empty", cols |-> <<>>, rows |-> <<>>, missing |-> <<>>]

Raised == [status |-> "KeyError", cols |-> <<>>, rows |-> <<>>, missing |-> <<>>]

NotRun == [status |-> "none", cols |-> <<>>, rows |-> <<>>, missing |-> <<>>]

\* df_processed as the partner fallback finds it (line 287)
before_fallback(t, ess) ==
    Bind(map_columns(t, ess), LAMBDA mapped :
    Bind(dedicated_phones(t, mapped, ess), LAMBDA phoned :
    format_phones(phoned, ess)))

\* df_processed after the partner fallback (line 349)
after_fallback(t, ess) ==
    Bind(before_fallback(t, ess), LAMBDA formatted : socio_fallback(formatted, ess))

\* df_processed as the filter of lines 373-374 finds it
before_filter(t, ess) ==
    Bind(after_fallback(t, ess), LAMBDA p : unify_columns(p))

\* The rows returned keep, as idx, the label of the input row they come from
\* (the code renumbers them on return; AsInput does so when the table is fed
\* back).
clean_and_filter_data(t, ess) ==
    IF IsEmptyFrame(t) THEN EmptyReturn
    ELSE Bind(after_fallback(t, ess), LAMBDA p :
         IF unify_raises(p) THEN Raised
         ELSE Bind(unify_columns(p), LAMBDA u :
              Bind(drop_without_whats(u.rows), LAMBDA with_whats :
              Bind(drop_duplicates(with_whats, {}), LAMBDA kept :
              Bind([i \in DOMAIN kept |-> project_row(kept[i])], LAMBDA out :
              [status |-> "ok",
               cols |-> final_cols,
               rows |-> sort_values(out),
               missing |-> SelectSeq(ess, LAMBDA c : ~HasCol(p, c)
                                                 /\ c \notin Range(final_cols))])))))

-----------------------------------------------------------------------------
(* utils.py: process_agendor_report                                         *)

NoTable == [cols |-> <<>>, rows |-> <<>>]

\* get_key: the formatter without country code, "MISSING" when it gives ""
get_key(val) ==
    Bind(format_phone_for_whatsapp_business(val, FALSE)[1], LAMBDA clean_val :
    IF clean_val # "" THEN clean_val ELSE "MISSING")

reason_candidates == <<"Motivo", "Erro", "Reason", "Status", "Importação">>

whats_candidates == <<"WhatsApp", "Whats", "Celular", "Phone">>

duplicate_terms == <<"duplicidade", "duplicate", "já existe", "cadastrado">>

\* .astype(str).str.lower().str.contains("duplicidade|duplicate|já existe|cadastrado")
is_duplicate_reason(v) ==
    Bind(Lower(Str(v)), LAMBDA text :
    \E k \in DOMAIN duplicate_terms : Contains(text, duplicate_terms[k]))

\* the stats dictionary
new_stats(orig, err, duplicates_removed, manual_fix_needed, safe_total) ==
    [original_total |-> Len(orig.rows),
     error_total |-> Len(err.rows),
     duplicates_removed |-> duplicates_removed,
     auto_fixed |-> 0,
     manual_fix_needed |-> manual_fix_needed,
     safe_total |-> safe_total]

\* What a call gives its caller: status "ok" with (df_safe, df_manual_fix,
\* stats), or status "ValueError" when the call raises.
ReportNone ==
    [status |-> "none", safe |-> NoTable, manual |-> NoTable,
     stats |-> new_stats(NoTable, NoTable, 0, 0, 0)]

ReportRaised == [ReportNone EXCEPT !.status = "ValueError"]

\* reason_map: the reason of the first error row that has this key
first_reason(err, keys_err, reason_col, key) ==
    err.rows[SetMin({j \in DOMAIN keys_err : keys_err[j] = key})].cells[reason_col]

\* lines 430-494, once the three columns are known and both keys were found
separate_rows(orig, err, reason_col, col_whats_orig, col_whats_err) ==
    Bind([i \in DOMAIN orig.rows |-> get_key(orig.rows[i].cells[col_whats_orig])], LAMBDA keys_orig :
    Bind([j \in DOMAIN err.rows |-> get_key(err.rows[j].cells[col_whats_err])], LAMBDA keys_err :
    Bind([j \in DOMAIN err.rows |->
            reason_col # "" /\ is_duplicate_reason(err.rows[j].cells[reason_col])], LAMBDA is_duplicate :
    Bind({keys_err[j] : j \in {j \in DOMAIN err.rows : is_duplicate[j]}} \ {"MISSING"}, LAMBDA keys_duplicates :
    Bind({keys_err[j] : j \in {j \in DOMAIN err.rows : ~is_duplicate[j]}} \ {"MISSING"}, LAMBDA keys_errors_other :
    Bind(Range(keys_err) \ {"MISSING"}, LAMBDA all_error_keys :
    Bind(SelectIdx(orig.rows, [i \in DOMAIN orig.rows |-> keys_orig[i] \notin all_error_keys]), LAMBDA safe_rows :
    Bind([i \in DOMAIN orig.rows |-> keys_orig[i] \in keys_errors_other /\ keys_orig[i] # "MISSING"], LAMBDA mask_fix :
    Bind(SelectIdx(orig.rows, mask_fix), LAMBDA fix_rows :
    Bind(SelectIdx(keys_orig, mask_fix), LAMBDA fix_keys :
    LET kept_cols == SelectSeq(orig.cols, LAMBDA c : c # "MOTIVO_ERRO" /\ c # "_MATCH_KEY")
        safe_cols == SelectSeq(orig.cols, LAMBDA c : c # "_MATCH_KEY")
        manual == IF reason_col # ""
                  THEN [cols |-> <<"MOTIVO_ERRO">> \o kept_cols,
                        rows |-> [i \in DOMAIN fix_rows |->
                                    [idx |-> fix_rows[i].idx,
                                     cells |-> [c \in {"MOTIVO_ERRO"} \cup Range(kept_cols) |->
                                        IF c = "MOTIVO_ERRO"
                                        THEN first_reason(err, keys_err, reason_col, fix_keys[i])
                                        ELSE fix_rows[i].cells[c]]]]]
                  ELSE [cols |-> safe_cols,
                        rows |-> [i \in DOMAIN fix_rows |-> DropCols(fix_rows[i], Range(safe_cols))]]
    IN [status |-> "ok",
        safe |-> [cols |-> safe_cols,
                  rows |-> [i \in DOMAIN safe_rows |-> DropCols(safe_rows[i], Range(safe_cols))]],
        manual |-> manual,
        stats |-> new_stats(orig, err, Cardinality(keys_duplicates),
                            Len(fix_rows), Len(safe_rows))]))))))))))

\* df_original.columns and df_error.columns, as lines 420-425 pass them to
\* best_match_column, are pandas Index objects
process_agendor_report(orig, err) ==
    Bind(best_match_column("Index", err.cols, reason_candidates, 50), LAMBDA reason_col :
    IF reason_col = ValueError THEN ReportRaised
    ELSE Bind(best_match_column("Index", orig.cols, whats_candidates, 50), LAMBDA col_whats_orig :
         IF col_whats_orig = ValueError THEN ReportRaised
         ELSE Bind(best_match_column("Index", err.cols, whats_candidates, 50), LAMBDA col_whats_err :
              IF col_whats_err = ValueError THEN ReportRaised
              ELSE IF col_whats_orig = "" \/ col_whats_err = ""
              THEN [status |-> "ok", safe |-> orig, manual |-> NoTable,
                    stats |-> new_stats(orig, err, 0, 0, 0)]
              ELSE separate_rows(orig, err, reason_col, col_whats_orig, col_whats_err))))

-----------------------------------------------------------------------------
(* data_ingestion.py: the structure detection of load_data                  *)

\* unicodedata.normalize('NFKD', c) without its combining marks, one character
Unaccent(c) ==
    CASE c \in {"á", "à", "â", "ã"} -> "a"
      [] c \in {"Á", "À", "Â", "Ã"} -> "A"
      [] c \in {"é", "ê"} -> "e"
      [] c \in {"É", "Ê"} -> "E"
      [] c = "í" -> "i"
      [] c = "Í" -> "I"
      [] c \in {"ó", "ô", "õ"} -> "o"
      [] c \in {"Ó", "Ô", "Õ"} -> "O"
      [] c = "ú" -> "u"
      [] c = "Ú" -> "U"
      [] c = "ç" -> "c"
      [] c = "Ç" -> "C"
      [] OTHER -> c

RECURSIVE UnaccentNoSpace(_)
UnaccentNoSpace(s) ==
    IF s = "" THEN ""
    ELSE (IF Char(s, 1) = " " THEN "" ELSE Unaccent(Char(s, 1)))
         \o UnaccentNoSpace(SubSeq(s, 2, Len(s)))

\* data_cleaning.normalize_colname: accents and spaces removed, lower case
normalize_colname(name) == Lower(UnaccentNoSpace(name))

lemit_phone_markers == <<"Whats", "CEL", "FONE", "DDD", "Telefone", "Celular">>

ASSERTIVA_ESSENTIAL_COLS ==
    <<"Razao", "Logradouro", "Numero", "Bairro", "Cidade", "UF", "CEP",
      "SOCIO1Nome", "SOCIO1Celular1", "SOCIO1Celular2">>

LEMIT_ESSENTIAL_COLS == <<"NOME", "Whats", "CEL", "DDD", "FONE">>

assertiva_markers ==
    SelectSeq(ASSERTIVA_ESSENTIAL_COLS, LAMBDA c : c \notin {"Razao", "SOCIO1Nome"})

\* lines 137-144
is_lemit_robust(df_cols_normalized) ==
    LET has_possui_whatsapp == normalize_colname("POSSUI-WHATSAPP") \in df_cols_normalized
        has_nome == normalize_colname("NOME") \in df_cols_normalized
        has_lemit_phone == \E k \in DOMAIN lemit_phone_markers :
                              normalize_colname(lemit_phone_markers[k]) \in df_cols_normalized
    IN has_possui_whatsapp \/ (has_nome /\ has_lemit_phone)

\* lines 148-152
is_assertiva_robust(df_cols_normalized) ==
    LET has_nome == normalize_colname("NOME") \in df_cols_normalized
        has_razao == normalize_colname("Razao") \in df_cols_normalized
        present_assertiva_markers ==
            Cardinality({k \in DOMAIN assertiva_markers :
                           normalize_colname(assertiva_markers[k]) \in df_cols_normalized})
    IN (has_razao \/ has_nome) /\ present_assertiva_markers >= 3

\* a variant that tests the two signals in the other order
detect_structure_assertiva_first(df_columns) ==
    Bind({normalize_colname(col) : col \in df_columns}, LAMBDA df_cols_normalized :
    IF is_assertiva_robust(df_cols_normalized) THEN "Assertiva"
    ELSE IF is_lemit_robust(df_cols_normalized) THEN "Lemit"
    ELSE "Desconhecida")

\* lines 130-164, for a file read without error
detect_structure(df_columns) ==
    Bind({normalize_colname(col) : col \in df_columns}, LAMBDA df_cols_normalized :
    IF is_lemit_robust(df_cols_normalized) THEN "Lemit"
    ELSE IF is_assertiva_robust(df_cols_normalized) THEN "Assertiva"
    ELSE "Desconhecida")

-----------------------------------------------------------------------------
(* The inputs of clean_and_filter_data                                     *)

\* the behaviour has no upload page / calls no pure function
NoSession == [page |-> "none"]

NoCall == <<>>

\* rows per input table
MaxRows == 2

\* an essential list that also asks for the second partner's columns
WITH_SOCIO2_COLS ==
    FULL_EXTRACTION_COLS \o <<"SOCIO2Nome", "SOCIO2Celular1", "SOCIO2Celular2">>

\* FULL_EXTRACTION_COLS is the list the application passes (report_generator.py:273)
EssentialLists ==
    {FULL_EXTRACTION_COLS, LEMIT_ESSENTIAL_COLS, ASSERTIVA_ESSENTIAL_COLS,
     WITH_SOCIO2_COLS, FIXED_OUTPUT_ORDER}

\* the column order of an input file
SourceColumns ==
    <<"Razao", "BAIRRO", "NOME", "Whats", "CEL", "DDD", "FONE", "Contato",
      "SOCIO1Nome", "SOCIO1Celular1", "SOCIO2Nome">>

\* The rows an input file is made of; a column a row does not name is an
\* empty cell (NaN) when another row of the file has it.
RowTemplates ==
    {[Razao |-> "ACME", BAIRRO |-> "Centro", NOME |-> "Ana", Whats |-> "67981783902"],
     [Razao |-> "Beta", BAIRRO |-> "Alto", NOME |-> "Bob", Whats |-> "5567981783902"],
     [Razao |-> "Cia", BAIRRO |-> "Centro", NOME |-> "Carl", Whats |-> "1167981783902"],
     [NOME |-> "Dora", DDD |-> "67", FONE |-> "981783902", CEL |-> "32145678"],
     [NOME |-> "Lia", DDD |-> "67", FONE |-> "981783902", CEL |-> "981783902"],
     [BAIRRO |-> "Alto", DDD |-> "67", FONE |-> "981783902"],
     [SOCIO2Nome |-> "Eva", Whats |-> "11912345678"],
     [SOCIO2Nome |-> "Ivo", Razao |-> "Delta"],
     [Razao |-> "Zeta", Whats |-> "  "],
     [SOCIO1Nome |-> "Fabio", SOCIO1Celular1 |-> "(67) 3214-5678", NOME |-> " "],
     [Contato |-> "11912345678.0", NOME |-> "Gil"],
     [NOME |-> "Nina", SOCIO1Nome |-> "Otto", Whats |-> "21987654321",
      SOCIO1Celular1 |-> "21912345678"],
     [Whats |-> "123", NOME |-> "Hugo", Razao |-> "ACME"]}

BuildTable(seq) ==
    LET cols == SelectSeq(SourceColumns, LAMBDA c : \E k \in DOMAIN seq : c \in DOMAIN seq[k])
    IN [cols |-> cols,
        rows |-> [i \in DOMAIN seq |->
                    [idx |-> i - 1,
                     cells |-> [c \in Range(cols) |->
                                  IF c \in DOMAIN seq[i] THEN seq[i][c] ELSE NaN]]]]

InputTables ==
    {BuildTable(seq) : seq \in UNION {[1..n -> RowTemplates] : n \in 0..MaxRows}}

\* the returned table fed back: reset_index(drop=True) has renumbered the rows
AsInput(ret) ==
    [cols |-> ret.cols,
     rows |-> [i \in DOMAIN ret.rows |-> [idx |-> i - 1, cells |-> ret.rows[i].cells]]]

-----------------------------------------------------------------------------
(* The hygiene run: clean_and_filter_data on a file, then on its own output *)

InitClean ==
    /\ mode = "clean"
    /\ pc = "start"
    /\ df \in InputTables
    /\ essential_cols \in EssentialLists
    /\ run1 = NotRun
    /\ run2 = NotRun
    /\ df_original = NoTable
    /\ df_error = NoTable
    /\ report = ReportNone
    /\ columns = {}
    /\ structure_type = "none"
    /\ session_state = NoSession
    /\ call_args = NoCall
    /\ call_result = NoCall

Clean ==
    /\ mode = "clean"
    /\ pc = "start"
    /\ \E ret \in {clean_and_filter_data(df, essential_cols)} : run1' = ret
    /\ pc' = "done"
    /\ UNCHANGED <<mode, df, essential_cols, run2, df_original, df_error, report,
                   columns, structure_type, session_state, call_args, call_result>>

Rerun ==
    /\ mode = "clean"
    /\ pc = "done"
    /\ run1.status = "ok"
    /\ \E t \in {AsInput(run1)} :
         \E ret \in {clean_and_filter_data(t, essential_cols)} : run2' = ret
    /\ pc' = "rerun"
    /\ UNCHANGED <<mode, df, essential_cols, run1, df_original, df_error, report,
                   columns, structure_type, session_state, call_args, call_result>>

NextClean == Clean \/ Rerun

SpecClean == InitClean /\ [][NextClean]_vars

-----------------------------------------------------------------------------
(* The reconciliation run: process_agendor_report on an original table and *)
(* the error report the CRM gave back for it                               *)

\* rows per table of the reconciliation
MaxReportRows == 2

OriginalRows ==
    {[Nome |-> "Ana", Whats |-> "67981783902"],
     [Nome |-> "Bob", Whats |-> "11912345678"],
     [Nome |-> "Cid", Whats |-> ""]}

OriginalRowsNoPhone == {[Nome |-> "Dan", Obs |-> "vip"]}

ErrorRows ==
    {[Whats |-> "+55 67 98178-3902", Motivo |-> "Duplicidade de cadastro"],
     [Whats |-> "67981783902", Motivo |-> "CEP inválido"],
     [Whats |-> "11912345678", Motivo |-> "CEP inválido"]}

ErrorRowsNoPhone == {[Nome |-> "Ana", Motivo |-> "CEP inválido"]}

ReportTable(cols, seq) ==
    [cols |-> cols,
     rows |-> [i \in DOMAIN seq |->
                 [idx |-> i - 1, cells |-> [c \in Range(cols) |-> seq[i][c]]]]]

TablesOf(cols, rows) ==
    {ReportTable(cols, seq) : seq \in UNION {[1..n -> rows] : n \in 0..MaxReportRows}}

OriginalTables ==
    TablesOf(<<"Nome", "Whats">>, OriginalRows) \cup TablesOf(<<"Nome", "Obs">>, OriginalRowsNoPhone)

ErrorTables ==
    TablesOf(<<"Whats", "Motivo">>, ErrorRows) \cup TablesOf(<<"Nome", "Motivo">>, ErrorRowsNoPhone)

InitReport ==
    /\ mode = "report"
    /\ pc = "start"
    /\ df = NoTable
    /\ essential_cols = <<>>
    /\ run1 = NotRun
    /\ run2 = NotRun
    /\ df_original \in OriginalTables
    /\ df_error \in ErrorTables
    /\ report = ReportNone
    /\ columns = {}
    /\ structure_type = "none"
    /\ session_state = NoSession
    /\ call_args = NoCall
    /\ call_result = NoCall

ProcessReport ==
    /\ mode = "report"
    /\ pc = "start"
    /\ \E ret \in {process_agendor_report(df_original, df_error)} : report' = ret
    /\ pc' = "done"
    /\ UNCHANGED <<mode, df, essential_cols, run1, run2, df_original, df_error,
                   columns, structure_type, session_state, call_args, call_result>>

NextReport == ProcessReport

SpecReport == InitReport /\ [][NextReport]_vars

-----------------------------------------------------------------------------
(* The detection run: load_data on a file read without error               *)

\* the header names a file may carry
RawColumns ==
    {"POSSUI-WHATSAPP", "Possui Whatsapp", "Nome", "NOME ", "Razão", "Whats", "Tele fone",
     "Logradouro", "NÚMERO", "Bairro", "BAIRRO", "CEP"}

InitDetect ==
    /\ mode = "detect"
    /\ pc = "start"
    /\ df = NoTable
    /\ essential_cols = <<>>
    /\ run1 = NotRun
    /\ run2 = NotRun
    /\ df_original = NoTable
    /\ df_error = NoTable
    /\ report = ReportNone
    /\ columns \in SUBSET RawColumns
    /\ structure_type = "none"
    /\ session_state = NoSession
    /\ call_args = NoCall
    /\ call_result = NoCall

LoadData ==
    /\ mode = "detect"
    /\ pc = "start"
    /\ \E ret \in {detect_structure(columns)} : structure_type' = ret
    /\ pc' = "done"
    /\ UNCHANGED <<mode, df, essential_cols, run1, run2, df_original, df_error,
                   report, columns, session_state, call_args, call_result>>

NextDetect == LoadData

SpecDetect == InitDetect /\ [][NextDetect]_vars

-----------------------------------------------------------------------------
(* The upload page: aba_higienizacao with an uploaded file                 *)

\* load_data (data_ingestion.py:98-164): the parsed table, the structure and
\* the read error; the structure stays None when the file could not be read
load_data(t, err) ==
    IF err # "" THEN [df |-> NoTable, structure_type |-> "None", err |-> err]
    ELSE [df |-> t, structure_type |-> detect_structure(Range(t.cols)), err |-> ""]

\* what the page keeps in st.session_state, and what it showed in this run
\* (report_generator.py:235-241)
NewSession ==
    [page |-> "higienizacao", structure_type |-> "Não Detectada",
     df_clean |-> NoTable, missing_cols |-> <<>>, messages |-> <<>>,
     cleaner_calls |-> 0, df_export |-> "unset"]

\* a variant of the page that cleans whatever structure was detected
aba_higienizacao_cleans_unknown(ss, t, err) ==
    Bind(load_data(t, err), LAMBDA loaded :
    IF loaded.err # "" THEN [ss EXCEPT !.messages = <<"error">>]
    ELSE
      Bind(clean_and_filter_data(loaded.df, FULL_EXTRACTION_COLS), LAMBDA ret :
      [ss EXCEPT !.structure_type = loaded.structure_type,
                 !.df_clean = [cols |-> ret.cols, rows |-> ret.rows],
                 !.missing_cols = ret.missing,
                 !.cleaner_calls = 1,
                 !.messages = <<"success", "dataframe">>,
                 !.df_export = "set"]))

\* report_generator.py:246-300, the run of the page for one uploaded file
aba_higienizacao(ss, t, err) ==
    Bind(load_data(t, err), LAMBDA loaded :
    IF loaded.err # "" THEN [ss EXCEPT !.messages = <<"error">>]
    ELSE IF loaded.structure_type \notin {"Assertiva", "Lemit"}
    THEN [ss EXCEPT !.structure_type = loaded.structure_type,
                    !.df_clean = NoTable,
                    !.missing_cols = <<>>,
                    !.messages = <<"success", "error">>]
    ELSE
      Bind(clean_and_filter_data(loaded.df, FULL_EXTRACTION_COLS), LAMBDA ret :
      IF ret.status = "KeyError"
      THEN [ss EXCEPT !.structure_type = loaded.structure_type,
                      !.cleaner_calls = 1,
                      !.messages = <<"success", "info", "exception">>]
      ELSE IF ret.rows = <<>> \/ ret.cols = <<>>
      THEN [ss EXCEPT !.structure_type = loaded.structure_type,
                      !.df_clean = [cols |-> ret.cols, rows |-> ret.rows],
                      !.missing_cols = ret.missing,
                      !.cleaner_calls = 1,
                      !.messages = <<"success", "info", "warning">>]
      ELSE [ss EXCEPT !.structure_type = loaded.structure_type,
                      !.df_clean = [cols |-> ret.cols, rows |-> ret.rows],
                      !.missing_cols = ret.missing,
                      !.cleaner_calls = 1,
                      !.messages = <<"success", "info", "dataframe">>
                                   \o (IF ret.missing # <<>> THEN <<"warning">> ELSE <<>>),
                      !.df_export = "set"]))

\* what an earlier run of the page may have left in the session
EarlierSessions ==
    {NewSession,
     [NewSession EXCEPT !.structure_type = "Lemit",
                        !.df_clean = [cols |-> <<"Whats">>,
                                      rows |-> <<[idx |-> 0,
                                                  cells |-> [c \in {"Whats"} |-> "+5567981783902"]]>>],
                        !.missing_cols = <<"SOCIO2Nome">>,
                        !.df_export = "set"]}

InitUpload ==
    /\ mode = "upload"
    /\ pc = "start"
    /\ df \in InputTables
    /\ essential_cols = FULL_EXTRACTION_COLS
    /\ run1 = NotRun
    /\ run2 = NotRun
    /\ df_original = NoTable
    /\ df_error = NoTable
    /\ report = ReportNone
    /\ columns = {}
    /\ structure_type = "none"
    /\ session_state \in EarlierSessions
    /\ call_args \in {<<"">>, <<"Erro ao ler o arquivo">>}   \* load_data's err; "" is None
    /\ call_result = NoCall

Upload ==
    /\ mode = "upload"
    /\ pc = "start"
    /\ \E ss \in {aba_higienizacao(session_state, df, call_args[1])} : session_state' = ss
    /\ \E loaded \in {load_data(df, call_args[1])} : structure_type' = loaded.structure_type
    /\ pc' = "done"
    /\ UNCHANGED <<mode, df, essential_cols, run1, run2, df_original, df_error,
                   report, columns, call_args, call_result>>

NextUpload == Upload

SpecUpload == InitUpload /\ [][NextUpload]_vars

-----------------------------------------------------------------------------
(* The phone functions of utils.py, called on one value                    *)

\* The values a phone cell may hold, as str() shows them: an optional country
\* or area prefix, a run of digits, and what a float or a typist leaves behind.
PhoneValues ==
    LET prefixes == {"", "55", "+55 ", "(67) "}
        bodies == {"", "123", "12345678", "123456789", "981783902", "6732145678",
                   "67981783902", "556798178390", "116798178390", "5567981783902",
                   "1167981783902", "55679817839021"}
        suffixes == {"", ".0", "-0", " "}
    IN {NaN} \cup {p \o b \o x : p \in prefixes, b \in bodies, x \in suffixes}

InitPhone ==
    /\ mode = "phone"
    /\ pc = "start"
    /\ df = NoTable
    /\ essential_cols = <<>>
    /\ run1 = NotRun
    /\ run2 = NotRun
    /\ df_original = NoTable
    /\ df_error = NoTable
    /\ report = ReportNone
    /\ columns = {}
    /\ structure_type = "none"
    /\ session_state = NoSession
    /\ call_args \in {<<f, v, flag>> : f \in {"format_phone_for_whatsapp_business",
                                              "clean_phone_number"},
                                       v \in PhoneValues, flag \in BOOLEAN}
    /\ call_result = NoCall

\* format_phone_for_whatsapp_business(phone_str, include_country_code=flag)
FormatPhone ==
    /\ mode = "phone"
    /\ pc = "start"
    /\ call_args[1] = "format_phone_for_whatsapp_business"
    /\ \E ret \in {format_phone_for_whatsapp_business(call_args[2], call_args[3])} :
         call_result' = ret
    /\ pc' = "done"
    /\ UNCHANGED <<mode, df, essential_cols, run1, run2, df_original, df_error,
                   report, columns, structure_type, session_state, call_args>>

\* clean_phone_number(number_str, preserve_full=flag)
CleanPhone ==
    /\ mode = "phone"
    /\ pc = "start"
    /\ call_args[1] = "clean_phone_number"
    /\ \E ret \in {clean_phone_number(call_args[2], call_args[3])} :
         call_result' = <<ret>>
    /\ pc' = "done"
    /\ UNCHANGED <<mode, df, essential_cols, run1, run2, df_original, df_error,
                   report, columns, structure_type, session_state, call_args>>

\* the formatter on its own result, as process_agendor_report's get_key meets
\* a Whats column that report_generator.py:1547 has formatted already
FormatAgain ==
    /\ mode = "phone"
    /\ pc = "done"
    /\ call_args[1] = "format_phone_for_whatsapp_business"
    /\ call_result[1] # ""
    /\ \E ret \in {format_phone_for_whatsapp_business(call_result[1], call_args[3])} :
         call_result' = call_result \o <<ret[1]>>
    /\ pc' = "again"
    /\ UNCHANGED <<mode, df, essential_cols, run1, run2, df_original, df_error,
                   report, columns, structure_type, session_state, call_args>>

NextPhone == FormatPhone \/ CleanPhone \/ FormatAgain

SpecPhone == InitPhone /\ [][NextPhone]_vars

-----------------------------------------------------------------------------
(* The column matcher of utils.py, called on a list of column names        *)

\* columns per list, candidates per list
MaxMatchColumns == 2

MaxMatchCandidates == 2

\* column names of a file and candidate names of a caller: equal but for
\* case, one inside the other, sharing a token, alike, and "" which the loop
\* skips
MatchColumns == {"Nome", "Fone", "WHATS", "WhatsApp", "Celular 1"}

MatchCandidates == {"Fone", "Nome", "whats", "Celular", ""}

\* lists without a repeated name
ListsOf(names, n) ==
    {seq \in UNION {[1..k -> names] : k \in 0..n} :
        \A i, j \in DOMAIN seq : seq[i] = seq[j] => i = j}

InitMatch ==
    /\ mode = "match"
    /\ pc = "start"
    /\ df = NoTable
    /\ essential_cols = <<>>
    /\ run1 = NotRun
    /\ run2 = NotRun
    /\ df_original = NoTable
    /\ df_error = NoTable
    /\ report = ReportNone
    /\ columns = {}
    /\ structure_type = "none"
    /\ session_state = NoSession
    /\ call_args \in {<<"best_match_column", cols, cands, min_score>> :
                         cols \in ListsOf(MatchColumns, MaxMatchColumns),
                         cands \in ListsOf(MatchCandidates, MaxMatchCandidates),
                         min_score \in {50, 60}}
    /\ call_result = NoCall

\* best_match_column(df_columns, candidates, min_score) on a list
MatchColumn ==
    /\ mode = "match"
    /\ pc = "start"
    /\ \E ret \in {best_match_column("list", call_args[2], call_args[3], call_args[4])} :
         call_result' = <<ret>>
    /\ pc' = "done"
    /\ UNCHANGED <<mode, df, essential_cols, run1, run2, df_original, df_error,
                   report, columns, structure_type, session_state, call_args>>

NextMatch == MatchColumn

SpecMatch == InitMatch /\ [][NextMatch]_vars

-----------------------------------------------------------------------------
(* The candidates of an address field: lines 128-156 of                    *)
(* clean_and_filter_data on a table that has some of the field's variants  *)

\* one row whose every cell has content
FilledTable(cols) ==
    [cols |-> cols,
     rows |-> <<[idx |-> 0, cells |-> [c \in Range(cols) |-> "x"]]>>]

InitVariants ==
    /\ mode = "variants"
    /\ pc = "start"
    /\ \E f \in {"Logradouro", "Numero", "Bairro", "Cidade", "UF"} :
         \E present \in SUBSET Range(variant_list(f)) :
            /\ df = FilledTable(SelectSeq(variant_list(f), LAMBDA c : c \in present))
            /\ essential_cols = <<f>>
    /\ run1 = NotRun
    /\ run2 = NotRun
    /\ df_original = NoTable
    /\ df_error = NoTable
    /\ report = ReportNone
    /\ columns = {}
    /\ structure_type = "none"
    /\ session_state = NoSession
    /\ call_args = NoCall
    /\ call_result = NoCall

\* the candidates in the order the direct loop tries them, and the one it accepts
SortCandidates ==
    /\ mode = "variants"
    /\ pc = "start"
    /\ \E tried \in {potential_source_cols(df, essential_cols[1])} :
         call_result' = <<tried, first_with_content(df, tried)>>
    /\ pc' = "done"
    /\ UNCHANGED <<mode, df, essential_cols, run1, run2, df_original, df_error,
                   report, columns, structure_type, session_state, call_args>>

NextVariants == SortCandidates

SpecVariants == InitVariants /\ [][NextVariants]_vars

-----------------------------------------------------------------------------
(* Properties of clean_and_filter_data (SpecClean)                          *)

Returned == {run1, run2}

HasWhats(row) == ~IsNa(row.cells["Whats"]) /\ row.cells["Whats"] # ""

Labels(rows) == {rows[k].idx : k \in DOMAIN rows}

\* C1: a table returned by clean_and_filter_data holds no two rows whose
\* non-empty Whats values are equal.
C1_NoDuplicateWhats ==
    \A r \in Returned : \A i, j \in DOMAIN r.rows :
        (i # j /\ r.rows[i].cells["Whats"] # "")
            => r.rows[i].cells["Whats"] # r.rows[j].cells["Whats"]

\* two input rows with the same phone, one row returned
C1_Witness ==
    /\ pc = "done" /\ run1.status = "ok"
    /\ essential_cols = FULL_EXTRACTION_COLS
    /\ Len(df.rows) = 2 /\ HasCol(df, "Whats")
    /\ df.rows[1].cells["Whats"] = "67981783902"
    /\ df.rows[2].cells["Whats"] = "67981783902"
    /\ Len(run1.rows) = 1

\* C2, as stated: no two rows of the returned table have Whats values with
\* the same strict-11 phone key (the last 11 digits when there are 11 or more,
\* all 10 when there are exactly 10).
C2_NoSharedPhoneKey ==
    \A i, j \in DOMAIN run1.rows :
        i # j => clean_phone_number(run1.rows[i].cells["Whats"], FALSE)
                 # clean_phone_number(run1.rows[j].cells["Whats"], FALSE)

\* C2, as the code has it: the key is the formatted Whats text itself.  Of the
\* input rows whose final formatted Whats is the same text only one is
\* returned, and every final formatted Whats text is the Whats of a returned row.
C2_FormattedWhatsIsTheKey ==
    run1.status = "ok" =>
        \E pre \in {before_filter(df, essential_cols).rows} :
          \E alive \in {Labels(run1.rows)} :
            /\ \A i, j \in DOMAIN pre :
                 (i # j /\ HasWhats(pre[i]) /\ pre[i].cells["Whats"] = pre[j].cells["Whats"])
                     => ~(pre[i].idx \in alive /\ pre[j].idx \in alive)
            /\ \A i \in DOMAIN pre :
                 HasWhats(pre[i])
                     => \E k \in DOMAIN run1.rows :
                           run1.rows[k].cells["Whats"] = pre[i].cells["Whats"]

\* two phones written differently that format to the same text: one row returned
C2_Witness ==
    /\ pc = "done" /\ run1.status = "ok"
    /\ Len(df.rows) = 2 /\ HasCol(df, "Whats")
    /\ df.rows[1].cells["Whats"] = "67981783902"
    /\ df.rows[2].cells["Whats"] = "5567981783902"
    /\ Len(run1.rows) = 1
    /\ run1.rows[1].cells["Whats"] = "+5567981783902"

\* C3: every row of a returned table has a Whats that is neither empty nor
\* missing, and an input row whose final Whats (formatted, and filled from
\* SOCIO1Celular1) is empty or missing is not returned.
C3_EveryRowHasWhats ==
    /\ \A r \in Returned : \A i \in DOMAIN r.rows : HasWhats(r.rows[i])
    /\ run1.status = "ok" =>
         \E pre \in {before_filter(df, essential_cols).rows} :
           \A i \in DOMAIN pre :
               ~HasWhats(pre[i]) => pre[i].idx \notin Labels(run1.rows)

\* a row with a blank phone beside a row with a phone: only the second is returned
C3_Witness ==
    /\ pc = "done" /\ run1.status = "ok"
    /\ essential_cols = LEMIT_ESSENTIAL_COLS
    /\ Len(df.rows) = 2 /\ HasCol(df, "Whats")
    /\ df.rows[1].cells["Whats"] = "  "
    /\ df.rows[2].cells["Whats"] = "67981783902"
    /\ Labels(run1.rows) = {1}

C4_ListRaises(ess) ==
    \/ "Whats" \notin Range(ess)
    \/ "SOCIO1Nome" \in Range(ess) /\ "NOME" \notin Range(ess)
    \/ "SOCIO1Celular2" \in Range(ess) /\ "CEL" \notin Range(ess)

C5_Idempotent ==
    pc = "rerun" =>
        /\ run2.status = "ok"
        /\ {run2.rows[k].cells : k \in DOMAIN run2.rows}
           = {run1.rows[k].cells : k \in DOMAIN run1.rows}

\* C6: when SOCIO1Nome is an essential column, an input row whose first
\* partner has no valid name, phone or CPF and whose second partner has a
\* valid name leaves the fallback with that name in SOCIO1Nome; a row where
\* both partners have no valid field at all is dropped by the fallback.
C6_PersonFallback ==
    (mode = "clean" /\ pc = "done" /\ ~IsEmptyFrame(df)
     /\ "SOCIO1Nome" \in Range(essential_cols)) =>
        \E before \in {before_fallback(df, essential_cols).rows} :
          \E after \in {after_fallback(df, essential_cols).rows} :
            \A i \in DOMAIN df.rows :
              LET first_invalid ==
                      \A k \in DOMAIN SOCIO_FIELDS :
                          ~is_field_valid(SOCIO_FIELDS[k][1],
                                          row_get(before[i], SOCIO_FIELDS[k][2], NaN))
                  second_invalid ==
                      \A k \in DOMAIN SOCIO_FIELDS :
                          ~is_field_valid(SOCIO_FIELDS[k][1],
                                          row_get(df.rows[i], SOCIO_FIELDS[k][3], NaN))
                  second_name == row_get(df.rows[i], "SOCIO2Nome", NaN)
              IN /\ (first_invalid /\ is_field_valid("Nome", second_name))
                        => \E j \in DOMAIN after :
                              /\ after[j].idx = df.rows[i].idx
                              /\ after[j].cells["SOCIO1Nome"] = second_name
                 /\ (first_invalid /\ second_invalid)
                        => df.rows[i].idx \notin Labels(after)

-----------------------------------------------------------------------------
(* Properties of process_agendor_report (SpecReport)                        *)

\* the phone-like column of a table, "" when it has none
PhoneColumn(t) == best_match_column("list", t.cols, whats_candidates, 50)

ReasonColumn(t) == best_match_column("list", t.cols, reason_candidates, 50)

\* the error rows that carry the key of original row i
ErrorRowsOf(i) ==
    IF PhoneColumn(df_original) = "" \/ PhoneColumn(df_error) = "" THEN {}
    ELSE {j \in DOMAIN df_error.rows :
            /\ get_key(df_error.rows[j].cells[PhoneColumn(df_error)])
               = get_key(df_original.rows[i].cells[PhoneColumn(df_original)])
            /\ get_key(df_error.rows[j].cells[PhoneColumn(df_error)]) # "MISSING"}

IsDuplicateRow(j) ==
    /\ ReasonColumn(df_error) # ""
    /\ is_duplicate_reason(df_error.rows[j].cells[ReasonColumn(df_error)])

\* C7: the call returns, and no original row whose phone key is the key of an
\* error row with a duplicate reason is in safeRows or in manualFixRows.
C7_DuplicatesExcluded ==
    (mode = "report" /\ pc = "done") =>
        /\ report.status = "ok"
        /\ \A i \in DOMAIN df_original.rows :
             (\E j \in ErrorRowsOf(i) : IsDuplicateRow(j))
                 => /\ df_original.rows[i].idx \notin Labels(report.safe.rows)
                    /\ df_original.rows[i].idx \notin Labels(report.manual.rows)

\* C8: the call returns, and every original row whose phone key is the key of
\* an error row with another reason is in manualFixRows with its original
\* cells and MOTIVO_ERRO, the first column, holding that reason, and is not in
\* safeRows.
C8_OtherErrorsToManualFix ==
    (mode = "report" /\ pc = "done") =>
        /\ report.status = "ok"
        /\ \A i \in DOMAIN df_original.rows :
             (\E j \in ErrorRowsOf(i) : ~IsDuplicateRow(j))
                 => /\ df_original.rows[i].idx \notin Labels(report.safe.rows)
                    /\ Head(report.manual.cols) = "MOTIVO_ERRO"
                    /\ \E k \in DOMAIN report.manual.rows :
                         /\ report.manual.rows[k].idx = df_original.rows[i].idx
                         /\ \A c \in Range(df_original.cols) :
                              report.manual.rows[k].cells[c] = df_original.rows[i].cells[c]
                         /\ \E j \in ErrorRowsOf(i) :
                              /\ ~IsDuplicateRow(j)
                              /\ report.manual.rows[k].cells["MOTIVO_ERRO"]
                                 = df_error.rows[j].cells[ReasonColumn(df_error)]

\* C9: when the original table or the error table has no phone-like column,
\* the call returns the original table as safeRows and no manualFixRows.
C9_AbortWithoutPhoneColumn ==
    (mode = "report" /\ pc = "done"
     /\ (PhoneColumn(df_original) = "" \/ PhoneColumn(df_error) = "")) =>
        /\ report.status = "ok"
        /\ report.safe = df_original
        /\ report.manual.rows = <<>>

\* the positions of the original rows a result table holds, in its order
IsInOriginalOrder(rows) ==
    /\ \A k \in DOMAIN rows : \E i \in DOMAIN df_original.rows : df_original.rows[i].idx = rows[k].idx
    /\ \A k, l \in DOMAIN rows : k < l => rows[k].idx < rows[l].idx

\* C26: the call returns; safeRows and manualFixRows share no row, each
\* holds rows of the original table only, in the original order and none
\* twice; and every original row whose key is the key of no error row, or is
\* "MISSING", is in safeRows.
C26_Partition ==
    (mode = "report" /\ pc = "done") =>
        /\ report.status = "ok"
        /\ Labels(report.safe.rows) \cap Labels(report.manual.rows) = {}
        /\ IsInOriginalOrder(report.safe.rows)
        /\ IsInOriginalOrder(report.manual.rows)
        /\ \A i \in DOMAIN df_original.rows :
             ErrorRowsOf(i) = {} => df_original.rows[i].idx \in Labels(report.safe.rows)

\* C27: on every path the call returns, and safe_total is the number of rows
\* of safeRows, manual_fix_needed the number of rows of manualFixRows and
\* original_total the number of rows of the original table.
C27_StatsAgree ==
    (mode = "report" /\ pc = "done") =>
        /\ report.status = "ok"
        /\ report.stats.safe_total = Len(report.safe.rows)
        /\ report.stats.manual_fix_needed = Len(report.manual.rows)
        /\ report.stats.original_total = Len(df_original.rows)

-----------------------------------------------------------------------------
(* Properties of the structure detection (SpecDetect)                       *)

\* the header names of RawColumns that are spellings of a marker
C10_Nome == {"Nome", "NOME "}

C10_Razao == {"Razão"}

C10_PhoneMarkers == {"Whats", "Tele fone"}

C10_AssertivaMarkers == {{"Logradouro"}, {"NÚMERO"}, {"Bairro", "BAIRRO"}, {"CEP"}}

C10_Expected(cols) ==
    IF "POSSUI-WHATSAPP" \in cols \/ (cols \cap C10_Nome # {} /\ cols \cap C10_PhoneMarkers # {})
    THEN "Lemit"
    ELSE IF /\ cols \cap (C10_Razao \cup C10_Nome) # {}
            /\ Cardinality({m \in C10_AssertivaMarkers : cols \cap m # {}}) >= 3
    THEN "Assertiva"
    ELSE "Desconhecida"

\* C10: the detected structure is Lemit when POSSUI-WHATSAPP is present or
\* NOME and a phone marker are present, whatever Assertiva markers there are;
\* otherwise Assertiva exactly when Razao or NOME and at least 3 of the
\* Assertiva markers are present; otherwise Desconhecida; names compared
\* without accents and spaces, in lower case.
C10_StructureDetection ==
    (mode = "detect" /\ pc = "done") => structure_type = C10_Expected(columns)

\* both signals present: a name, a phone marker and three Assertiva markers
C10_Witness ==
    /\ mode = "detect" /\ pc = "done"
    /\ columns = {"NOME ", "Tele fone", "Razão", "Logradouro", "NÚMERO", "BAIRRO"}
    /\ structure_type = "Lemit"

\* C12: for every input that is not empty and every essential list, the call
\* completes without raising and returns the nine-column table with a missing
\* list.
C12_CompletesForEveryList ==
    (mode = "clean" /\ pc # "start" /\ ~IsEmptyFrame(df)) =>
        /\ run1.status = "ok"
        /\ run1.cols = FIXED_OUTPUT_ORDER

\* C13: whenever a column of the essential list has no acceptable source
\* column in the input (none found directly with content, none by the fuzzy
\* match), its name is in the missing list the call returns.
C13_UnmappedIsMissing ==
    (mode = "clean" /\ pc # "start" /\ run1.status = "ok") =>
        \A k \in DOMAIN essential_cols :
            mapped_source(df, essential_cols[k]) = "" =>
                essential_cols[k] \in Range(run1.missing)

SameSortKey(a, b) ==
    a.cells["Bairro"] = b.cells["Bairro"] /\ a.cells["Razao"] = b.cells["Razao"]

\* C19: the rows returned are in ascending order of (Bairro, Razao): no row
\* comes after a row of a greater key, and rows of equal key are in the order
\* they had in the input.
C19_SortedStable ==
    \A r \in Returned :
        r.status = "ok" =>
            \A i, j \in DOMAIN r.rows :
                i < j =>
                    \E a \in {r.rows[i]} : \E b \in {r.rows[j]} :
                        /\ ~StrLess(b.cells["Bairro"], a.cells["Bairro"])
                        /\ a.cells["Bairro"] = b.cells["Bairro"]
                             => ~StrLess(b.cells["Razao"], a.cells["Razao"])
                        /\ SameSortKey(a, b) => a.idx < b.idx

\* two rows of the same Bairro given with the greater Razao first: returned swapped
C19_Witness ==
    /\ mode = "clean" /\ pc = "done" /\ run1.status = "ok"
    /\ Len(run1.rows) = 2
    /\ run1.rows[1].idx = 1 /\ run1.rows[2].idx = 0
    /\ run1.rows[1].cells["Bairro"] = "Centro" /\ run1.rows[2].cells["Bairro"] = "Centro"
    /\ run1.rows[1].cells["Razao"] = "ACME" /\ run1.rows[2].cells["Razao"] = "Cia"

\* C20: for a list that names DDD or FONE, the phones the scan of a row
\* finds for the first and the second slot are distinct, and each has 10 or
\* 11 digits.
C20_TwoDistinctStrictPhones ==
    (mode = "clean" /\ pc # "start" /\ run1.status = "ok" /\ is_lemit_like(essential_cols)) =>
        \A i \in DOMAIN df.rows :
            \E valid_phones \in {scan_phone_columns(df.rows[i], 0, <<>>)} :
                /\ \A k \in DOMAIN valid_phones : k <= 2 => Len(valid_phones[k]) \in {10, 11}
                /\ Len(valid_phones) >= 2 => valid_phones[1] # valid_phones[2]

\* df_processed as the formatting step of lines 280-287 finds it
UnformattedPhones == dedicated_phones(df, map_columns(df, essential_cols), essential_cols)

FormattedPhones == before_fallback(df, essential_cols)

CleanRan == mode = "clean" /\ pc # "start" /\ run1.status = "ok"

\* "+" and then digits only
IsPlusDigits(v) ==
    /\ StartsWith(v, "+")
    /\ OnlyDigits(v) = SubSeq(v, 2, Len(v))

\* C21, as stated: every phone column of the essential list holds, after the
\* formatting step, the formatter's result without country code for the value
\* it held before: digits only, or "" for a value of no use.
C21_FormattedWithoutCode ==
    CleanRan =>
        \E pre \in {UnformattedPhones} : \E post \in {FormattedPhones} :
            \A i \in DOMAIN post.rows : \A k \in DOMAIN PhoneColumns :
                PhoneColumns[k] \in Range(essential_cols) =>
                    \E v \in {post.rows[i].cells[PhoneColumns[k]]} :
                        /\ v = format_phone_for_whatsapp_business(
                                   pre.rows[i].cells[PhoneColumns[k]], FALSE)[1]
                        /\ v = OnlyDigits(v)

\* C21, as the code has it: every phone column of the essential list holds,
\* after the formatting step, the formatter's result with the country code
\* for the value it held before: "+" and digits, or "" for a value of no use,
\* never a missing value; and where the list names no column of a second
\* partner, the Whats and CEL cells returned are of that same form.
C21_FormattedWithCode ==
    CleanRan =>
        /\ \E pre \in {UnformattedPhones} : \E post \in {FormattedPhones} :
             \A i \in DOMAIN post.rows : \A k \in DOMAIN PhoneColumns :
                 PhoneColumns[k] \in Range(essential_cols) =>
                     \E v \in {post.rows[i].cells[PhoneColumns[k]]} :
                         /\ v = format_phone_for_whatsapp_business(
                                    pre.rows[i].cells[PhoneColumns[k]], TRUE)[1]
                         /\ ~IsNa(v)
                         /\ v = "" \/ IsPlusDigits(v)
        /\ (\A c \in Range(essential_cols) : ~IsSocio2(c)) =>
             \A i \in DOMAIN run1.rows :
                 /\ IsPlusDigits(run1.rows[i].cells["Whats"])
                 /\ \E v \in {run1.rows[i].cells["CEL"]} : v = "" \/ IsPlusDigits(v)

\* a phone found by the scan of DDD and FONE is returned with "+55" before it
C21_Witness ==
    /\ CleanRan /\ pc = "done"
    /\ essential_cols = LEMIT_ESSENTIAL_COLS
    /\ Len(df.rows) = 1 /\ HasCol(df, "DDD") /\ ~HasCol(df, "CEL")
    /\ df.rows[1].cells["DDD"] = "67" /\ df.rows[1].cells["FONE"] = "981783902"
    /\ Len(run1.rows) = 1
    /\ run1.rows[1].cells["Whats"] = "+5567981783902"
    /\ run1.rows[1].cells["CEL"] = ""

\* the fields whose candidates are the numbered variants of lines 130-139
AddressFields == {"Logradouro", "Numero", "Bairro", "Cidade", "UF"}

\* a cell that is missing or blank
IsEmptyValue(v) == IsNa(v) \/ Strip(v) = ""

\* the first name of a list that is a column of t with a cell that is not empty
RECURSIVE FirstFilled(_, _)
FirstFilled(t, names) ==
    IF names = <<>> THEN ""
    ELSE IF HasCol(t, Head(names))
            /\ \E i \in DOMAIN t.rows : ~IsEmptyValue(t.rows[i].cells[Head(names)])
         THEN Head(names)
         ELSE FirstFilled(t, Tail(names))

\* C22: for each field of the essential list that is not an address field,
\* the column the direct match accepts is the first name of the field's alias
\* list that is a column of the table and has a cell that is neither blank
\* nor missing; a column whose cells are all blank or missing is passed over.
C22_FirstAliasWithContent ==
    (mode = "clean" /\ pc # "start" /\ ~IsEmptyFrame(df)) =>
        \A k \in DOMAIN essential_cols :
            essential_cols[k] \notin AddressFields =>
                first_with_content(df, potential_source_cols(df, essential_cols[k]))
                    = FirstFilled(df, source_options(essential_cols[k]))

\* the fields unification fills, each with the partner field it is filled from
UnifiedFrom ==
    [NOME |-> "SOCIO1Nome", Whats |-> "SOCIO1Celular1", CEL |-> "SOCIO1Celular2"]

\* the cell unification must leave in a target field
C24_Expected(prow, target) ==
    IF ~IsEmptyValue(prow.cells[target]) THEN prow.cells[target]
    ELSE IF UnifiedFrom[target] \in DOMAIN prow.cells
            /\ ~IsEmptyValue(prow.cells[UnifiedFrom[target]])
         THEN prow.cells[UnifiedFrom[target]]
         ELSE NaN

\* C24: unification keeps every NOME, Whats and CEL cell that is not empty,
\* and puts the partner's SOCIO1Nome, SOCIO1Celular1 or SOCIO1Celular2 there
\* only where the cell is empty and the partner's is not; a cell that was not
\* empty is returned with that value, stripped.
C24_NeverOverrides ==
    CleanRan =>
        \E p \in {after_fallback(df, essential_cols)} :
        \E u \in {before_filter(df, essential_cols)} :
            /\ Len(u.rows) = Len(p.rows)
            /\ \A i \in DOMAIN p.rows : \A target \in DOMAIN UnifiedFrom :
                 target \in DOMAIN p.rows[i].cells =>
                     /\ u.rows[i].cells[target] = C24_Expected(p.rows[i], target)
                     /\ \A k \in DOMAIN run1.rows :
                          (run1.rows[k].idx = p.rows[i].idx
                           /\ ~IsEmptyValue(p.rows[i].cells[target]))
                              => run1.rows[k].cells[target] = Strip(p.rows[i].cells[target])

\* a row with a name and a phone of its own and a partner with others: the
\* row is returned with its own
C24_Witness ==
    /\ CleanRan /\ pc = "done"
    /\ essential_cols = FULL_EXTRACTION_COLS
    /\ Len(df.rows) = 1 /\ HasCol(df, "SOCIO1Nome") /\ HasCol(df, "NOME")
    /\ df.rows[1].cells["NOME"] = "Nina" /\ df.rows[1].cells["SOCIO1Nome"] = "Otto"
    /\ Len(run1.rows) = 1
    /\ run1.rows[1].cells["NOME"] = "Nina"
    /\ run1.rows[1].cells["Whats"] = "+5521987654321"

\* C25: every cell of the nine columns of a returned table is a stripped
\* text; a missing source value is returned as "", never as a missing value.
C25_CellsAreStrippedText ==
    \A r \in Returned :
        r.status = "ok" =>
            \A i \in DOMAIN r.rows : \A k \in DOMAIN FIXED_OUTPUT_ORDER :
                \E v \in {r.rows[i].cells[FIXED_OUTPUT_ORDER[k]]} :
                    ~IsNa(v) /\ v = Strip(v)

-----------------------------------------------------------------------------
(* Properties of the upload page (SpecUpload)                               *)

UploadDone == mode = "upload" /\ pc = "done"

UnknownDetected == UploadDone /\ call_args[1] = "" /\ structure_type = "Desconhecida"

\* C11: when detection yields the unknown structure, the cleaner is never
\* invoked: the page reports an error, leaves the session's clean table empty
\* and its missing-fields list empty, and shows no table and sets no export.
C11_UnknownStopsBeforeCleaning ==
    UnknownDetected =>
        /\ session_state.cleaner_calls = 0
        /\ "error" \in Range(session_state.messages)
        /\ "dataframe" \notin Range(session_state.messages)
        /\ session_state.df_clean = NoTable
        /\ session_state.missing_cols = <<>>

\* an unknown file with rows, uploaded over a session that held a clean table
C11_Witness ==
    /\ UnknownDetected
    /\ df.rows # <<>>
    /\ session_state.df_export = "set"
    /\ session_state.df_clean = NoTable

-----------------------------------------------------------------------------
(* Properties of the phone functions (SpecPhone)                            *)

\* the digits of a value once a trailing ".0" is dropped ("" for a missing value)
StripToDigits(v) ==
    IF IsNa(v) THEN ""
    ELSE LET s0 == Strip(v)
         IN OnlyDigits(IF EndsWith(s0, ".0") THEN SubSeq(s0, 1, Len(s0) - 2) ELSE s0)

Formatted == mode = "phone" /\ pc = "done" /\ call_args[1] = "format_phone_for_whatsapp_business"

Cleaned == mode = "phone" /\ pc = "done" /\ call_args[1] = "clean_phone_number"

\* C14: a value whose digits, counted after a trailing ".0" is dropped, are
\* fewer than 10 (an empty or missing value included) is formatted as
\* ("", "VAZIO"), with and without the country code.
C14_ShortIsEmpty ==
    (Formatted /\ Len(StripToDigits(call_args[2])) < 10) => call_result = <<"", "VAZIO">>

\* what C15 says the formatter returns for a run of at least 10 digits
C15_Expected(digits, include_country_code) ==
    IF ~include_country_code
    THEN (IF StartsWith(digits, "55") /\ Len(digits) >= 12
          THEN <<SubSeq(digits, 3, Len(digits)), "OK (Sem +55)">>
          ELSE <<digits, "OK (Sem +55)">>)
    ELSE IF StartsWith(digits, "55") /\ Len(digits) >= 12 THEN <<"+" \o digits, "OK">>
    ELSE IF Len(digits) \in {10, 11} THEN <<"+55" \o digits, "CORRIGIDO (+55)">>
    ELSE IF StartsWith(digits, "55") THEN <<"+" \o digits, "INCERTO">>
    ELSE <<"+55" \o digits, "INCERTO">>

\* C15: a value with at least 10 digits is formatted, without the country
\* code, as its digits less a leading "55" when they are 12 or more, status
\* "OK (Sem +55)"; with it, as "+" and the digits, status "OK", when they start
\* with "55" and are 12 or more, as "+55" and the digits, status
\* "CORRIGIDO (+55)", when they are 10 or 11, and else as "+55" and the digits,
\* status "INCERTO".
C15_FormatByLength ==
    (Formatted /\ Len(StripToDigits(call_args[2])) >= 10) =>
        call_result = C15_Expected(StripToDigits(call_args[2]), call_args[3])

\* eleven digits that start with 55, formatted without country code, keep the 55
C15_Witness ==
    /\ Formatted
    /\ call_args[2] = "55981783902" /\ call_args[3] = FALSE
    /\ call_result = <<"55981783902", "OK (Sem +55)">>

\* C16: clean_phone_number with preserve_full=False returns the last 11 digits
\* of a value with 11 or more, the 10 digits of a value with exactly 10, and
\* NaN for fewer, the digits being counted after a trailing ".0" is dropped.
C16_StrictEleven ==
    (Cleaned /\ call_args[3] = FALSE) =>
        \E digits \in {StripToDigits(call_args[2])} :
            call_result[1] = IF Len(digits) >= 11
                             THEN SubSeq(digits, Len(digits) - 10, Len(digits))
                             ELSE IF Len(digits) = 10 THEN digits
                             ELSE NaN

\* a float of thirteen digits: the ".0" goes, the last eleven digits stay
C16_Witness ==
    /\ Cleaned
    /\ call_args[2] = "5567981783902.0" /\ call_args[3] = FALSE
    /\ call_result = <<"67981783902">>

\* C28: the formatter without country code, applied to its own result that
\* is not empty, returns that result: a value formatted before has the key of
\* the raw value.
C28_KeyIsIdempotent ==
    (mode = "phone" /\ pc = "again" /\ call_args[3] = FALSE) =>
        call_result[3] = call_result[1]

-----------------------------------------------------------------------------
(* Properties of best_match_column (SpecMatch)                              *)

Matched == mode = "match" /\ pc = "done"

\* column i equals candidate k but for case
EqualButCase(cols, cands, i, k) == Lower(cols[i]) = Lower(cands[k])

\* C17: if some column equals some candidate but for case, the column
\* returned is one that equals a candidate but for case; a column that equals
\* no candidate is not returned in its place.
C17_ExactMatchOutranks ==
    Matched =>
        \E cols \in {call_args[2]} : \E cands \in {call_args[3]} :
            (\E i \in DOMAIN cols : \E k \in DOMAIN cands : EqualButCase(cols, cands, i, k))
            => \E i \in DOMAIN cols :
                   /\ call_result[1] = cols[i]
                   /\ \E k \in DOMAIN cands : EqualButCase(cols, cands, i, k)

\* "WhatsApp" holds the candidate and comes first, "WHATS" equals it but for case
C17_Witness ==
    /\ Matched
    /\ call_args[2] = <<"WhatsApp", "WHATS">>
    /\ call_args[3] = <<"whats", "Celular">>
    /\ call_result = <<"WHATS">>

\* the pairs the loops score, <<candidate index, column index>>, and those of
\* the greatest score
ScoredPairs(cols, cands) == {p \in (DOMAIN cands) \X (DOMAIN cols) : cands[p[1]] # ""}

TopPairs(cols, cands) ==
    Bind({<<p, pair_score(cands[p[1]], cols[p[2]])>> : p \in ScoredPairs(cols, cands)},
         LAMBDA scored :
    {e[1] : e \in {e \in scored : \A f \in scored : ~ScoreGreater(f[2], e[2])}})

ReachesMinScore(cols, cands, p, min_score) ==
    \E sc \in {pair_score(cands[p[1]], cols[p[2]])} : sc[1] >= 100 * min_score * sc[2]

\* C18, as stated: the column returned is "" when no pair reaches min_score;
\* otherwise it has the greatest score, and among the columns that have it,
\* it is the first in the order of the column list.
C18_FirstColumnWins ==
    Matched =>
        \E cols \in {call_args[2]} : \E cands \in {call_args[3]} :
        \E top \in {TopPairs(cols, cands)} :
            IF \A p \in top : ~ReachesMinScore(cols, cands, p, call_args[4])
            THEN call_result[1] = ""
            ELSE \E p \in top :
                    /\ call_result[1] = cols[p[2]]
                    /\ \A q \in top : p[2] <= q[2]

\* C18, as the code has it: the column returned is "" when no pair reaches
\* min_score; otherwise it has the greatest score, and among the pairs that
\* have it, it is the column of the pair with the earliest candidate, and for
\* that candidate the earliest column.
C18_FirstCandidateWins ==
    Matched =>
        \E cols \in {call_args[2]} : \E cands \in {call_args[3]} :
        \E top \in {TopPairs(cols, cands)} :
            IF \A p \in top : ~ReachesMinScore(cols, cands, p, call_args[4])
            THEN call_result[1] = ""
            ELSE \E p \in top :
                    /\ call_result[1] = cols[p[2]]
                    /\ \A q \in top : p[1] < q[1] \/ (p[1] = q[1] /\ p[2] <= q[2])

\* two columns each equal to a candidate, with equal scores: the column of the
\* first candidate is returned, though it is the second column
C18_Witness ==
    /\ Matched
    /\ call_args[2] = <<"Nome", "Fone">>
    /\ call_args[3] = <<"Fone", "Nome">>
    /\ call_result = <<"Fone">>

-----------------------------------------------------------------------------
(* Properties of the address candidates (SpecVariants)                      *)

\* a name that ends in ".1", ".2" or ".3", and the name before that suffix
IsNumbered(c) == Len(c) > 2 /\ Char(c, Len(c) - 1) = "." /\ Char(c, Len(c)) \in Digits

BaseOf(c) == IF IsNumbered(c) THEN SubSeq(c, 1, Len(c) - 2) ELSE c

\* C23: for an address field, every candidate column without a numbered
\* suffix is tried before any candidate with one, and the numbered variants
\* of one name are tried in increasing order of the suffix.
C23_BaseBeforeNumbered ==
    (mode = "variants" /\ pc = "done") =>
        \E tried \in {call_result[1]} :
            \A i, j \in DOMAIN tried :
                i < j =>
                    /\ ~(IsNumbered(tried[i]) /\ ~IsNumbered(tried[j]))
                    /\ (IsNumbered(tried[i]) /\ IsNumbered(tried[j])
                        /\ BaseOf(tried[i]) = BaseOf(tried[j]))
                           => StrLess(tried[i], tried[j])


-----------------------------------------------------------------------------
(* report_generator.py: the 'Pessoas' generator and its handoff to the      *)
(* 'Negócios' generator (SpecPessoas)                                       *)

\* str.upper()
RECURSIVE Upper(_)
Upper(s) ==
    IF s = "" THEN ""
    ELSE LET c == Char(s, 1)
             ups == {u \in DOMAIN UpperToLower : UpperToLower[u] = c}
         IN (IF ups = {} THEN c ELSE CHOOSE u \in ups : TRUE) \o Upper(SubSeq(s, 2, Len(s)))

\* str.split(sep) for a separator of one character: the parts from position i
\* on, cur being the part read so far
RECURSIVE split(_, _, _, _)
split(s, sep, i, cur) ==
    IF i > Len(s) THEN <<cur>>
    ELSE IF Char(s, i) = sep THEN <<cur>> \o split(s, sep, i + 1, "")
    ELSE split(s, sep, i + 1, cur \o Char(s, i))

\* str.replace(old, new)
RECURSIVE replace(_, _, _)
replace(s, old, new) ==
    IF s = "" THEN ""
    ELSE IF StartsWith(s, old) THEN new \o replace(SubSeq(s, Len(old) + 1, Len(s)), old, new)
    ELSE Char(s, 1) \o replace(SubSeq(s, 2, Len(s)), old, new)

\* d[k] = v on a dict, kept as the sequence of its items in insertion order:
\* an existing key keeps its place and takes the new value
dict_put(d, k, v) ==
    IF \E i \in DOMAIN d : d[i].k = k
    THEN [i \in DOMAIN d |-> IF d[i].k = k THEN [k |-> k, v |-> v] ELSE d[i]]
    ELSE Append(d, [k |-> k, v |-> v])

\* the output line of one lead for one consultant
linha(row, consultor) ==
    [idx |-> row.idx,
     Nome |-> row_get(row, "NOME", ""),
     Usuario |-> replace(Lower(consultor), " ", "."),
     WhatsApp |-> IF ~IsNa(row_get(row, "Whats", NaN)) /\ Strip(Str(row_get(row, "Whats", NaN))) # ""
                  THEN "+55" \o Strip(Str(row_get(row, "Whats", NaN))) ELSE ""]

\* the file name of one consultant
nome_arquivo_agendor(nicho_valor, consultor, data_formatada) ==
    "PESSOAS_" \o replace(Upper(nicho_valor), " ", "_") \o "_"
        \o Upper(split(consultor, " ", 1, "")[1]) \o "_" \o data_formatada \o ".xlsx"

\* the distribution loop: while leads remain, each consultant in turn takes
\* the next leads_por_consultor rows; i is the consultant whose turn it is
RECURSIVE distribute(_, _, _, _, _, _)
distribute(consultant_buffer, consultores, i, leads_processados, rows, leads_por_consultor) ==
    IF leads_processados >= Len(rows) THEN consultant_buffer
    ELSE LET fim_lote == IF leads_processados + leads_por_consultor < Len(rows)
                         THEN leads_processados + leads_por_consultor ELSE Len(rows)
             lote == [j \in 1..(fim_lote - leads_processados) |->
                         linha(rows[leads_processados + j], consultores[i])]
         IN distribute([consultant_buffer EXCEPT ![consultores[i]] = @ \o lote],
                       consultores, (i % Len(consultores)) + 1, fim_lote, rows,
                       leads_por_consultor)

\* "Generate files from buffer": one file per consultant that has lines
RECURSIVE write_files(_, _, _, _, _, _)
write_files(generated_files, consultant_buffer, consultores, i, nicho_valor, data_formatada) ==
    IF i > Len(consultores) THEN generated_files
    ELSE write_files(IF consultant_buffer[consultores[i]] # <<>>
                     THEN dict_put(generated_files,
                                   nome_arquivo_agendor(nicho_valor, consultores[i], data_formatada),
                                   consultant_buffer[consultores[i]])
                     ELSE generated_files,
                     consultant_buffer, consultores, i + 1, nicho_valor, data_formatada)

\* the button "Gerar Arquivo 'Pessoas'": the leads after cleaning and
\* deduplication, and the files generated from them
gerar_pessoas(t, consultores, leads_por_consultor, force_split, nicho_valor, data_formatada) ==
    LET cleaned == IF HasCol(t, "Whats")
                   THEN SelectSeq([i \in DOMAIN t.rows |->
                                      SetCell(t.rows[i], "Whats",
                                              clean_phone_number(t.rows[i].cells["Whats"], FALSE))],
                                  LAMBDA r : ~IsNa(r.cells["Whats"]))
                   ELSE t.rows
        leads == IF HasCol(t, "Whats") THEN drop_duplicates(cleaned, {}) ELSE cleaned
    IN IF cleaned = <<>> \/ consultores = <<>> THEN [leads |-> <<>>, files |-> <<>>]
       ELSE IF Len(consultores) = 1 /\ ~force_split
       THEN [leads |-> leads,
             files |-> <<[k |-> nome_arquivo_agendor(nicho_valor, consultores[1], data_formatada),
                          v |-> [j \in DOMAIN leads |-> linha(leads[j], consultores[1])]]>>]
       ELSE [leads |-> leads,
             files |-> write_files(<<>>,
                                   distribute([c \in Range(consultores) |-> <<>>], consultores,
                                              1, 0, leads, leads_por_consultor),
                                   consultores, 1, nicho_valor, data_formatada)]

\* the consultant name processar_e_gerar_negocios reads from a file name
consultor_nome_arquivo(file_name) ==
    LET file_name_parts == split(replace(file_name, ".xlsx", ""), "_", 1, "")
    IN IF Len(file_name_parts) >= 4 THEN file_name_parts[4] ELSE ""

\* the 'Negócios' files of one 'Pessoas' file: one per batch of
\* negocios_por_consultor lines, each dated one working day after the other
\* (proximo_dia_util skips the weekend; dates as strftime('%d-%m-%Y') prints them)
RECURSIVE negocios_do_arquivo(_, _, _, _, _, _, _)
negocios_do_arquivo(all_generated_files, lines, done, current_date, consultor, negocios_por_consultor, tail) ==
    IF done >= Len(lines) THEN all_generated_files
    ELSE LET proximo_dia_util == [d \in {"05-11-2026", "06-11-2026", "09-11-2026",
                                          "10-11-2026", "11-11-2026"} |->
                                      CASE d = "05-11-2026" -> "06-11-2026"
                                        [] d = "06-11-2026" -> "09-11-2026"
                                        [] d = "09-11-2026" -> "10-11-2026"
                                        [] d = "10-11-2026" -> "11-11-2026"
                                        [] d = "11-11-2026" -> "12-11-2026"]
             fim_lote == IF done + negocios_por_consultor < Len(lines)
                         THEN done + negocios_por_consultor ELSE Len(lines)
             dados == [j \in 1..(fim_lote - done) |->
                          [idx |-> lines[done + j].idx,
                           Pessoa |-> lines[done + j].Nome,
                           Usuario |-> lines[done + j].Usuario,
                           Inicio |-> current_date,
                           Conclusao |-> format_phone_for_whatsapp_business(
                                             Str(clean_phone_number(lines[done + j].WhatsApp, TRUE)),
                                             TRUE)[1]]]
         IN negocios_do_arquivo(
                dict_put(all_generated_files,
                         "NEGOCIOS_" \o Upper(consultor) \o "_" \o tail \o "_"
                             \o current_date \o ".xlsx",
                         dados),
                lines, fim_lote, proximo_dia_util[current_date], consultor,
                negocios_por_consultor, tail)

\* processar_e_gerar_negocios in handoff mode: every file of source_data in
\* turn; a file whose name gives no consultant is skipped
RECURSIVE processar_e_gerar_negocios(_, _, _, _, _, _, _)
processar_e_gerar_negocios(all_generated_files, source_data, i, negocios_por_consultor, start_date_negocios, nicho_principal, sufixo_localidade) ==
    IF i > Len(source_data) THEN all_generated_files
    ELSE processar_e_gerar_negocios(
             IF consultor_nome_arquivo(source_data[i].k) = "" THEN all_generated_files
             ELSE negocios_do_arquivo(all_generated_files, source_data[i].v, 0, start_date_negocios,
                                      consultor_nome_arquivo(source_data[i].k),
                                      negocios_por_consultor,
                                      Upper(nicho_principal)
                                          \o (IF sufixo_localidade # ""
                                              THEN "_" \o Upper(sufixo_localidade) ELSE "")),
             source_data, i + 1, negocios_por_consultor, start_date_negocios, nicho_principal,
             sufixo_localidade)

MaxLeads == 3

MaxBatch == 2

MaxConsultores == 2

InitPessoas ==
    /\ mode = "pessoas"
    /\ pc = "start"
    /\ \E n \in 1..MaxLeads :
         \E whats \in [1..n -> {"67981783902", "67 98178-3902", "67999990000", "11912345678", "123"}] :
           df = [cols |-> <<"NOME", "Whats">>,
                 rows |-> [i \in 1..n |->
                              [idx |-> i - 1,
                               cells |-> [NOME |-> "Lead" \o DigitText[i], Whats |-> whats[i]]]]]
    /\ essential_cols = <<>>
    /\ run1 = NotRun
    /\ run2 = NotRun
    /\ df_original = NoTable
    /\ df_error = NoTable
    /\ report = ReportNone
    /\ columns = {}
    /\ structure_type = "none"
    /\ session_state = NoSession
    /\ \E names \in SUBSET {"Ana Lima", "Ana Souza", "Bia Reis"} :
         \E consultores \in [1..Cardinality(names) -> names] :
           /\ names # {}
           /\ Cardinality(names) <= MaxConsultores
           /\ Range(consultores) = names
           /\ \E leads_por_consultor \in 1..MaxBatch :
                \E force_split \in (IF Cardinality(names) = 1 THEN BOOLEAN ELSE {FALSE}) :
                  \E nicho_valor \in {"GERAL", "PLANO SAUDE"} :
                    call_args = <<consultores, leads_por_consultor, force_split, nicho_valor>>
    /\ call_result = NoCall

\* the button "Gerar Arquivo 'Pessoas'" of aba_automacao_pessoas_agendor
GerarPessoas ==
    /\ mode = "pessoas"
    /\ pc = "start"
    /\ \E out \in {gerar_pessoas(df, call_args[1], call_args[2], call_args[3], call_args[4],
                                 "05-11-2026")} :
         /\ call_result' = <<out.leads, out.files>>
         /\ session_state' = IF out.files = <<>> THEN session_state
                             ELSE [page |-> "pessoas", generated_pessoas_files |-> out.files]
    /\ pc' = "generated"
    /\ UNCHANGED <<mode, df, essential_cols, run1, run2, df_original, df_error,
                   report, columns, structure_type, call_args>>

\* the handoff: "Gerar Arquivos de Negócios" on the files of the session
GerarNegocios ==
    /\ mode = "pessoas"
    /\ pc = "generated"
    /\ session_state.page = "pessoas"
    /\ \E negocios_por_consultor \in 1..MaxBatch : \E sufixo_localidade \in {"", "cg"} :
         call_result' = call_result \o
             <<processar_e_gerar_negocios(<<>>, session_state.generated_pessoas_files, 1,
                                          negocios_por_consultor, "05-11-2026", "AUTO",
                                          sufixo_localidade)>>
    /\ pc' = "negocios"
    /\ UNCHANGED <<mode, df, essential_cols, run1, run2, df_original, df_error,
                   report, columns, structure_type, session_state, call_args>>

NextPessoas == GerarPessoas \/ GerarNegocios

SpecPessoas == InitPessoas /\ [][NextPessoas]_vars

-----------------------------------------------------------------------------
(* Properties of the 'Pessoas' generator and the handoff (SpecPessoas)      *)

\* the places (file, line) of the generated 'Pessoas' files that hold lead idx
PlacesOf(files, idx) ==
    {fp \in {<<f, p>> : f \in DOMAIN files, p \in 1..MaxLeads + 1} :
        fp[2] \in DOMAIN files[fp[1]].v /\ files[fp[1]].v[fp[2]].idx = idx}

\* C29: after the distribution every lead of the deduplicated table is in
\* exactly one generated file, once, also when two consultants share a first
\* name.
C29_EveryLeadInOneFile ==
    (mode = "pessoas" /\ pc \in {"generated", "negocios"}) =>
        \A j \in DOMAIN call_result[1] :
            Cardinality(PlacesOf(call_result[2], call_result[1][j].idx)) = 1

\* C30: the consultant name read from the name of a handed-off file is the
\* first name of the consultant the file was built for, and no 'Negócios'
\* file of one consultant replaces that of another: every line handed off is
\* in a 'Negócios' file.
C30_NameRoundTrip ==
    (mode = "pessoas" /\ pc = "negocios") =>
        \A f \in DOMAIN call_result[2] :
            \A p \in DOMAIN call_result[2][f].v :
                /\ consultor_nome_arquivo(call_result[2][f].k)
                       = Upper(split(call_result[2][f].v[p].Usuario, ".", 1, "")[1])
                /\ \E g \in DOMAIN call_result[3] :
                       \E q \in DOMAIN call_result[3][g].v :
                           /\ call_result[3][g].v[q].idx = call_result[2][f].v[p].idx
                           /\ call_result[3][g].v[q].Usuario = call_result[2][f].v[p].Usuario
=========================================================================
